---- MODULE Spec2Model ----
(***************************************************************************)
(* CAN diagnostic tool: the scripted verification run                      *)
(* (pcan_sender_with_verification.py) with its background capture          *)
(* listener, the three frame matchers of the tool (receiver, transceiver,  *)
(* listener), and the watch sessions of the receiver and the transceiver   *)
(* (wait_for_message, wait_for_messages).                                  *)
(*                                                                         *)
(* Time is counted in ticks.  Computation takes no time: a tick passes     *)
(* only while the foreground thread is blocked (time.sleep, thread.join).  *)
(***************************************************************************)
EXTENDS Integers, Sequences, FiniteSets, TLC

\* ------------------------------------------------------------------ bounds
\* stimulus frames kept of each test case's messages list
MaxMsgs == 3
\* frames the capture thread appends during one run
MaxBuffer == 2
\* ticks spanned by CONFIG['verification_timeout']
VerificationTimeoutTicks == 2
\* ticks spanned by thread.join(timeout=1.0): longer than one poll interval
JoinTimeoutTicks == 2
\* longest payload pattern of a match target
MaxPatternLen == 2
\* targets of one watch session (names after MSG=)
MaxTargets == 2
\* frames a watch session pulls from the adapter
MaxWatchFrames == 3
\* largest timeout of a watch session, in ticks
MaxWatchTimeout == 2
\* start() / stop() calls of one listener in the listener harness
MaxCalls == 4
\* names in one MSG= / --listen list
MaxNames == 2
\* largest timeout handed to check_message_received in the listener harness
MaxCheckTimeout == 1
\* payloads of up to this many bytes are tried with every byte combination
MaxShortPayload == 2

\* --------------------------------------------------------------- constants
\* wildcard byte of a payload pattern (Python None inside a list)
None == -1
\* 0x11500700: identifier of every stimulus frame
STIMULUS_ID == 290457344
\* 0x114F0900: identifier of the Display success / error frame
DISPLAY_ID == 290392320
\* 0x200: identifier of the 11-bit example definition
TEMPERATURE_ID == 512
\* 0x7FF: largest 11-bit identifier
MAX_STD_ID == 2047
\* 0x104E0900: identifier of BI_USAGE
BI_USAGE_ID == 273549568
\* ticks spanned by the poll interval of bus.recv(timeout=0.1)
PollTicks_LongerThanJoin == JoinTimeoutTicks + 1
PollTicks == 1
\* a CAN frame carries at most 8 data bytes
MAX_DLC == 8

Min(a, b) == IF a < b THEN a ELSE b

BoolStr(b) == IF b THEN "True" ELSE "False"

\* ------------------------------------------------------------- test cases
Stim(bytes) == [i \in 1..Len(bytes) |-> [id |-> STIMULUS_ID, data |-> <<bytes[i]>>]]

Trunc(s) == SubSeq(s, 1, Min(Len(s), MaxMsgs))

DisplayTarget == [id |-> DISPLAY_ID, data |-> <<255, 0, 129>>]

SuccessCase(bytes) ==
    [expected_result |-> "PASS", messages |-> Trunc(Stim(bytes)),
     keys |-> {"verify_success"},
     verify_success |-> <<DisplayTarget>>, verify_failure |-> <<>>]

FailureCase(bytes) ==
    [expected_result |-> "FAIL", messages |-> Trunc(Stim(bytes)),
     keys |-> {"verify_failure"},
     verify_success |-> <<>>, verify_failure |-> <<DisplayTarget>>]

\* the eight shipped test cases
TEST_CASES ==
    (1 :> SuccessCase(<<1, 4, 6, 6, 6, 6, 6, 6, 6, 2, 7, 3>>)) @@
    (2 :> SuccessCase(<<4, 1, 6, 6, 6, 6, 6, 6, 6, 3, 7, 2>>)) @@
    (3 :> SuccessCase(<<4, 1, 6, 6, 6, 17, 6, 6, 6, 6, 3, 7, 2>>)) @@
    (4 :> SuccessCase(<<4, 1, 6, 6, 6, 18, 6, 6, 6, 6, 3, 7, 2>>)) @@
    (5 :> FailureCase(<<4, 1, 6, 6, 6, 17, 6, 17>>)) @@
    (6 :> FailureCase(<<4, 1, 6, 6, 6, 18, 6, 18>>)) @@
    (7 :> FailureCase(<<1, 4, 6, 255>>)) @@
    (8 :> SuccessCase(<<170, 187, 204, 1, 4, 6, 6, 6, 6, 6, 6, 6, 2, 7, 3>>))

\* a table entry whose messages list is empty (run_test_case's second guard)
EmptyCase ==
    [expected_result |-> "PASS", messages |-> <<>>, keys |-> {"verify_success"},
     verify_success |-> <<DisplayTarget>>, verify_failure |-> <<>>]

\* a table entry that declares two expectation targets (the verification
\* phase loops over the list)
TwoTargetCase ==
    [expected_result |-> "PASS", messages |-> Trunc(Stim(<<1, 4>>)),
     keys |-> {"verify_success"},
     verify_success |-> <<[id |-> DISPLAY_ID, data |-> <<255, None, 129, 2>>],
                          DisplayTarget>>,
     verify_failure |-> <<>>]

\* a test case that differs from case only in its expected_result label
Relabelled(case, label) == [case EXCEPT !.expected_result = label]

\* the table run_test_case looks tc_number up in: the shipped cases, the two
\* entries above, and test cases 1 and 5 with the other label
TestTable ==
    TEST_CASES @@ (9 :> EmptyCase) @@ (10 :> TwoTargetCase) @@
    (11 :> Relabelled(TEST_CASES[1], "FAIL")) @@
    (12 :> Relabelled(TEST_CASES[5], "PASS"))

\* TC= values given on the command line; 0 is not in the table. Cases 3 and 4
\* have the targets and the first frames of case 2, and case 6 those of case 5
TcNumbers == (0..12) \ {3, 4, 6}

\* ------------------------------------------------------------------ frames
Frame(id, ext, data) == [arbitration_id |-> id, is_extended_id |-> ext, data |-> data]

\* frames the far end may put on the bus during a run
BusFrames ==
    { Frame(DISPLAY_ID, TRUE, <<255, 0, 129>>),
      Frame(DISPLAY_ID, TRUE, <<255, 0, 129, 2>>),
      Frame(DISPLAY_ID, TRUE, <<255, 0>>),
      Frame(STIMULUS_ID, TRUE, <<255, 0, 129>>) }

\* --------------------------------------------------------------- matchers
\* target_data / expected_data given as Python None (no pattern at all)
NoData == <<-2>>

\* CANReceiver._check_match
Receiver_check_match_SkipsLastByte(msg, target_id, target_data) ==
    IF msg.arbitration_id # target_id THEN FALSE
    ELSE IF target_data = NoData THEN TRUE
    ELSE IF Len(msg.data) # Len(target_data) THEN FALSE
    ELSE \A i \in 1..(Len(target_data) - 1) :
            ~(target_data[i] # None
              /\ (i > Len(msg.data) \/ msg.data[i] # target_data[i]))

Receiver_check_match(msg, target_id, target_data) ==
    IF msg.arbitration_id # target_id THEN FALSE
    ELSE IF target_data = NoData THEN TRUE
    ELSE IF Len(msg.data) # Len(target_data) THEN FALSE
    ELSE \A i \in 1..Len(target_data) :
            ~(target_data[i] # None
              /\ (i > Len(msg.data) \/ msg.data[i] # target_data[i]))

\* CANTransceiver._check_match
Transceiver_check_match_NoWildcard(msg, target_id, target_data) ==
    IF msg.arbitration_id # target_id THEN FALSE
    ELSE IF target_data = NoData THEN TRUE
    ELSE IF Len(msg.data) < Len(target_data) THEN FALSE
    ELSE \A i \in 1..Len(target_data) : msg.data[i] = target_data[i]

Transceiver_check_match(msg, target_id, target_data) ==
    IF msg.arbitration_id # target_id THEN FALSE
    ELSE IF target_data = NoData THEN TRUE
    ELSE IF Len(msg.data) < Len(target_data) THEN FALSE
    ELSE \A i \in 1..Len(target_data) :
            target_data[i] = None \/ msg.data[i] = target_data[i]

\* the data_match loop of CANListener.check_message_received
data_match(msg, expected_data) ==
    \A i \in 1..Len(expected_data) :
        ~(expected_data[i] # None
          /\ (i > Len(msg.data) \/ msg.data[i] # expected_data[i]))

\* one iteration of "for msg in self.received_messages": "True" returns
\* (True, msg), "False" goes on to the next message, "TypeError" is
\* enumerate(None) raising
Listener_check_one(msg, expected_id, expected_data) ==
    IF msg.arbitration_id # expected_id THEN "False"
    ELSE IF expected_data = NoData THEN "TypeError"
    ELSE IF data_match(msg, expected_data) THEN "True"
    ELSE "False"

\* one pass of the for loop over the buffer
ScanBuffer_FirstOnly(buffer, expected_id, expected_data) ==
    IF buffer = <<>> THEN "False"
    ELSE Listener_check_one(Head(buffer), expected_id, expected_data)

RECURSIVE ScanBuffer(_, _, _)
ScanBuffer(buffer, expected_id, expected_data) ==
    IF buffer = <<>> THEN "False"
    ELSE LET r == Listener_check_one(Head(buffer), expected_id, expected_data)
         IN  IF r # "False" THEN r
             ELSE ScanBuffer(Tail(buffer), expected_id, expected_data)

\* ------------------------------------------------------------------- state
VARIABLES
    pc,                 \* position of the foreground thread (main / run_test_case)
    tc_number,          \* TC= argument
    msg_idx,            \* stimulus frames of the for loop already handled
    success_count,      \* run_test_case's success_count
    bus_sent,           \* every bus.send call seen by the adapter, with its outcome
    listening,          \* CANListener.listening
    thread,             \* CANListener.thread: "none", "check", "recv", "exit"
    received_messages,  \* CANListener.received_messages
    target_idx,         \* expectation target being verified
    elapsed,            \* time.time() - start_time of check_message_received
    join_elapsed,       \* ticks spent in thread.join
    verification_passed,\* run_test_case's verification_passed
    ret,                \* run_test_case's return value: "none", "True", "False"
    bus_open,           \* FALSE once bus.shutdown() was called
    phase_elapsed,      \* ticks since the verification phase began
    seen_in_time,       \* a target frame was in the buffer within the timeout
    seen_at_scan,       \* a frame of the target under check was there at a scan
    recv_log,           \* frames bus.recv returned to the capture thread since start()
    stop_called_at,     \* length of the buffer when stop() was last called
    stopped_buffer,     \* the buffer when stop() first returned
    stops_returned,     \* calls of stop() that have returned
    adapter_ops,        \* <<thread, operation>> pairs carried out on adapter and buffer
    interrupted,        \* a KeyboardInterrupt has unwound run_test_case
    m_tool, m_msg, m_def, m_res, m_prev,  \* matcher harness, see MatchSpec
    w_tool,             \* tool that runs the watch session
    w_fn,               \* "wait_for_message" or "wait_for_messages"
    targets,            \* match targets of the session
    timeout,            \* timeout argument, in ticks (0: none)
    collect_all,        \* collect_all argument
    w_pc,               \* position in the session: "loop", "recv", "summary", "done"
    w_end,              \* why the loop was left: "match", "timeout", "interrupt"
    w_elapsed,          \* time.time() - start_time of the session
    msg_count,          \* frames pulled from the adapter
    match_count,        \* wait_for_message's match_count
    matched_messages,   \* wait_for_message's matched_messages
    match_results,      \* wait_for_messages' match_results
    w_pulled,           \* every frame recv returned, with its arrival time
    w_ret,              \* returned boolean: "none", "True", "False"
    l_listening,        \* listener harness: CANListener.listening
    l_thread,           \* CANListener.thread: index into l_threads, 0 for None
    l_threads,          \* every capture thread created: "check", "recv", "exit"
    l_pc,               \* caller of start()/stop(): "off", "idle", "join"
    l_waited,           \* ticks spent in thread.join
    l_calls,            \* calls made on the listener
    l_buffer,           \* CANListener.received_messages, each frame with the
                        \* number of start() calls made when recv returned it
    l_pending,          \* per thread: the frame recv returned, not yet appended
    l_timeout,          \* check_message_received: its timeout, in ticks
    l_elapsed,          \* ticks since check_message_received was called
    l_ret,              \* what it returned: "none", "True", "False"
    l_present,          \* whether the buffer held a matching frame at the call
    l_overlap,          \* whether start() was ever called with a thread alive
    e_point,            \* entry points: which command line started the process
    e_names,            \* the message names given (MSG=, --listen, --msg)
    e_pc,               \* position in main: "idle", "parse", "open", "dispatch",
                        \* "send_predefined", "session", "close", "exit"
    e_bus,              \* the adapter: "unopened", "open", "closed"
    e_used,             \* whether bus.recv or bus.send was called
    e_reported,         \* whether an unknown name was reported
    e_bus_at_report,    \* e_bus when the unknown name was reported, else "none"
    e_status,           \* exit status: "none", 0, 1, "traceback"
    d_tool,             \* decoders: tool whose _decode_special_fields runs
    d_spec,             \* the special_decode dict: its fields in order
    d_pc,               \* "idle", "load", "ready", "framed", "done"
    d_timestamp,        \* timestamp handed to build_fc08_data, else NoWord
    d_data,             \* msg.data of the frame to decode
    d_decoded,          \* the dict _decode_special_fields returned
    d_warned,           \* fields a "Warning: Failed to decode" was printed for
    d_attached          \* per decoded field: the keys added to its result

runVars == <<pc, tc_number, msg_idx, success_count, bus_sent, listening, thread,
             received_messages, target_idx, elapsed, join_elapsed,
             verification_passed, ret, bus_open, phase_elapsed, seen_in_time,
             seen_at_scan, recv_log, stop_called_at, stopped_buffer, stops_returned,
             adapter_ops, interrupted>>
matchVars == <<m_tool, m_msg, m_def, m_res, m_prev>>
watchVars == <<w_tool, w_fn, targets, timeout, collect_all, w_pc, w_end, w_elapsed,
               msg_count, match_count, matched_messages, match_results, w_pulled,
               w_ret>>
lstVars == <<l_listening, l_thread, l_threads, l_pc, l_waited, l_calls, l_buffer,
             l_pending, l_timeout, l_elapsed, l_ret, l_present, l_overlap>>
entryVars == <<e_point, e_names, e_pc, e_bus, e_used, e_reported, e_bus_at_report,
               e_status>>
decVars == <<d_tool, d_spec, d_pc, d_timestamp, d_data, d_decoded, d_warned,
             d_attached>>
harnessVars == <<lstVars, entryVars, decVars>>
vars == <<runVars, matchVars, watchVars, harnessVars>>

tc == TestTable[tc_number]
messages == tc.messages

\* the list the verification phase walks: verify_success when that key is
\* declared, else verify_failure when that one is, else nothing
expected_targets ==
    IF "verify_success" \in tc.keys THEN tc.verify_success
    ELSE IF "verify_failure" \in tc.keys THEN tc.verify_failure
    ELSE <<>>

\* ----------------------------------------------------- observation / time
InVerification == pc \in {"verify", "check_loop", "scan", "sleep"}
InJoin == pc \in {"join", "close_join"}

\* a frame of the buffer satisfies identifier and byte pattern of a declared
\* expectation target
TargetFrameCaptured ==
    \E i \in 1..Len(received_messages) : \E j \in 1..Len(expected_targets) :
        Listener_check_one(received_messages[i], expected_targets[j].id,
                           expected_targets[j].data) = "True"

\* ... while the verification phase is less than the timeout old
CapturedInTime ==
    /\ InVerification
    /\ phase_elapsed < VerificationTimeoutTicks
    /\ TargetFrameCaptured

\* the buffer holds a frame of the target under check when a scan is due,
\* less than the timeout after the check of that target began
CapturedAtScan ==
    /\ pc = "scan"
    /\ elapsed < VerificationTimeoutTicks
    /\ \E i \in 1..Len(received_messages) :
          Listener_check_one(received_messages[i], expected_targets[target_idx].id,
                             expected_targets[target_idx].data) = "True"

\* history of the run, kept by every step; the matcher harness and the watch
\* session are idle
History ==
    /\ seen_in_time' = (seen_in_time \/ CapturedInTime')
    /\ seen_at_scan' = (seen_at_scan \/ CapturedAtScan')
    /\ UNCHANGED <<matchVars, watchVars, harnessVars>>

\* the step carries out the operations of S on the adapter or the buffer
Did(S) ==
    /\ adapter_ops' = adapter_ops \cup S
    /\ UNCHANGED interrupted

\* a step that neither receives a frame nor calls or leaves stop()
Quiet == UNCHANGED <<recv_log, stop_called_at, stopped_buffer, stops_returned>>

\* a step that does none of this and touches neither adapter nor buffer
Observe ==
    /\ History
    /\ Quiet
    /\ Did({})

\* stop() is entered
StopCalled == stop_called_at' = Len(received_messages)

\* stop() returns
StopReturned ==
    /\ stops_returned' = stops_returned + 1
    /\ stopped_buffer' = IF stops_returned = 0 THEN received_messages' ELSE stopped_buffer

\* ---------------------------------------------------------- run_test_case
\* "sender.listener.start()" is the first statement after the two guards
FirstStep_NoStart == "send"
FirstStep == "listener_start"

\* "if tc_number not in TEST_CASES: ... return False" and "if not messages:
\* ... return False"
Rejected_NotFoundOnly(n) == n \notin DOMAIN TestTable
Rejected(n) == n \notin DOMAIN TestTable \/ TestTable[n].messages = <<>>

RunTestCase_Entry ==
    /\ pc = "entry"
    /\ IF Rejected(tc_number)
       THEN /\ ret' = "False"
            /\ pc' = "close"
       ELSE /\ ret' = ret
            /\ pc' = FirstStep
    /\ UNCHANGED <<tc_number, msg_idx, success_count, bus_sent, listening, thread,
                   received_messages, target_idx, elapsed, join_elapsed,
                   verification_passed, bus_open, phase_elapsed>>
    /\ Observe

\* CANListener.start
Listener_start ==
    /\ pc = "listener_start"
    /\ listening' = TRUE
    /\ received_messages' = <<>>
    /\ thread' = "check"
    /\ pc' = "send"
    /\ UNCHANGED <<tc_number, msg_idx, success_count, bus_sent, target_idx, elapsed,
                   join_elapsed, verification_passed, ret, bus_open, phase_elapsed>>
    /\ History
    /\ Did({<<"main", "reset">>})
    /\ recv_log' = <<>>
    /\ UNCHANGED <<stop_called_at, stopped_buffer, stops_returned>>

\* the frame the for loop hands to sender.send in iteration i
StimulusAt_Reversed(msgs, i) == msgs[Len(msgs) + 1 - i]
StimulusAt(msgs, i) == msgs[i]

\* the loop index after iteration i whose send returned ok (n = len(messages))
IndexAfterSend_AbortOnFailure(i, ok, n) == IF ok THEN i ELSE n
IndexAfterSend(i, ok, n) == i

\* "if sender.send(...): success_count += 1"
CountAfterSend(count, ok) == IF ok THEN count + 1 ELSE count

\* CANSender.send, called from the for loop: ok is FALSE when bus.send raises
\* can.CanError
Sender_send ==
    /\ pc = "send"
    /\ msg_idx < Len(messages)
    /\ \E ok \in BOOLEAN :
         LET m == StimulusAt(messages, msg_idx + 1)
         IN  /\ bus_sent' = Append(bus_sent,
                                   [arbitration_id |-> m.id, data |-> m.data,
                                    is_extended_id |-> (m.id > MAX_STD_ID), ok |-> ok])
             /\ success_count' = CountAfterSend(success_count, ok)
             /\ msg_idx' = IndexAfterSend(msg_idx + 1, ok, Len(messages))
    /\ UNCHANGED <<pc, tc_number, listening, thread, received_messages, target_idx,
                   elapsed, join_elapsed, verification_passed, ret, bus_open,
                   phase_elapsed>>
    /\ History
    /\ Quiet
    /\ Did({<<"main", "send">>})

\* the for loop is exhausted: the verification phase begins
Verification_begin ==
    /\ pc = "send"
    /\ msg_idx >= Len(messages)
    /\ verification_passed' = FALSE
    /\ target_idx' = 1
    /\ phase_elapsed' = 0
    /\ pc' = "verify"
    /\ UNCHANGED <<tc_number, msg_idx, success_count, bus_sent, listening, thread,
                   received_messages, elapsed, join_elapsed, ret, bus_open>>
    /\ Observe

\* "for expected_id, expected_data in tc[...]": the next target is handed to
\* verify_message / check_message_received, which reads start_time; with no
\* target left the loop ends
Verify_next ==
    /\ pc = "verify"
    /\ IF target_idx <= Len(expected_targets)
       THEN /\ elapsed' = 0
            /\ pc' = "check_loop"
       ELSE /\ elapsed' = elapsed
            /\ pc' = "listener_stop"
    /\ UNCHANGED <<tc_number, msg_idx, success_count, bus_sent, listening, thread,
                   received_messages, target_idx, join_elapsed, verification_passed,
                   ret, bus_open, phase_elapsed>>
    /\ Observe

\* "while time.time() - start_time < timeout"
TimeLeft_Always(e) == TRUE
TimeLeft(e) == e < VerificationTimeoutTicks

Check_loop ==
    /\ pc = "check_loop"
    /\ IF TimeLeft(elapsed)
       THEN /\ pc' = "scan"
            /\ target_idx' = target_idx
       ELSE /\ pc' = "verify"
            /\ target_idx' = target_idx + 1
    /\ UNCHANGED <<tc_number, msg_idx, success_count, bus_sent, listening, thread,
                   received_messages, elapsed, join_elapsed, verification_passed,
                   ret, bus_open, phase_elapsed>>
    /\ Observe

\* what the verification looks at: it reads the buffer, it does not receive
ScanOp_LiveReceive == "recv"
ScanOp == "read"

\* one pass of "for msg in self.received_messages"
Check_scan ==
    /\ pc = "scan"
    /\ LET t == expected_targets[target_idx]
           r == ScanBuffer(received_messages, t.id, t.data)
       IN  /\ pc' = CASE r = "True" -> "listener_stop"
                      [] r = "False" -> "sleep"
                      [] OTHER -> "close"
           /\ verification_passed' = (r = "True")
    /\ UNCHANGED <<tc_number, msg_idx, success_count, bus_sent, listening, thread,
                   received_messages, target_idx, elapsed, join_elapsed, ret,
                   bus_open, phase_elapsed>>
    /\ History
    /\ Quiet
    /\ Did({<<"main", ScanOp>>})

\* time.sleep(0.01): short against the timeout, it spans at most one tick.
\* The phase lasts no longer than one timeout for each target
Check_sleep ==
    /\ pc = "sleep"
    /\ pc' = "check_loop"
    /\ \E d \in {0, 1} :
         /\ elapsed' = Min(elapsed + d, VerificationTimeoutTicks)
         /\ phase_elapsed' = Min(phase_elapsed + d,
                                 Len(expected_targets) * VerificationTimeoutTicks)
    /\ UNCHANGED <<tc_number, msg_idx, success_count, bus_sent, listening, thread,
                   received_messages, target_idx, join_elapsed,
                   verification_passed, ret, bus_open>>
    /\ Observe

\* "return verification_passed": the label of the test case is not read
VerdictOf_AgreesWithLabel(passed, label) == passed = (label = "PASS")
VerdictOf(passed, label) == passed

\* stop() assigns the flag only: the buffer is left as it is
BufferAfterStop_Cleared(buffer) == <<>>
BufferAfterStop(buffer) == buffer

\* "self.thread.join(timeout=1.0)" returns once the thread has ended or the
\* timeout is over
JoinReturns_AtOnce(th, waited) == TRUE
JoinReturns(th, waited) == th = "exit" \/ waited >= JoinTimeoutTicks

\* CANListener.stop, called by run_test_case once the verification loop is
\* over: clears the flag, then joins the thread
Listener_stop ==
    /\ pc = "listener_stop"
    /\ listening' = FALSE
    /\ received_messages' = BufferAfterStop(received_messages)
    /\ join_elapsed' = 0
    /\ StopCalled
    /\ IF thread # "none"
       THEN /\ pc' = "join"
            /\ ret' = ret
            /\ UNCHANGED <<stopped_buffer, stops_returned>>
       ELSE /\ pc' = "close"
            /\ ret' = BoolStr(VerdictOf(verification_passed, tc.expected_result))
            /\ StopReturned
    /\ UNCHANGED <<tc_number, msg_idx, success_count, bus_sent, thread, target_idx,
                   elapsed, verification_passed, bus_open, phase_elapsed>>
    /\ History
    /\ Did({})
    /\ UNCHANGED recv_log

\* thread.join(timeout=1.0) returns: the thread has ended or the timeout is
\* over; run_test_case then returns verification_passed
Listener_join ==
    /\ pc = "join"
    /\ JoinReturns(thread, join_elapsed)
    /\ ret' = BoolStr(VerdictOf(verification_passed, tc.expected_result))
    /\ pc' = "close"
    /\ UNCHANGED <<tc_number, msg_idx, success_count, bus_sent, listening, thread,
                   received_messages, target_idx, elapsed, join_elapsed,
                   verification_passed, bus_open, phase_elapsed>>
    /\ History
    /\ Did({})
    /\ StopReturned
    /\ UNCHANGED <<recv_log, stop_called_at>>

\* Ctrl+C while run_test_case runs: KeyboardInterrupt unwinds to main
KeyboardInterrupt ==
    /\ pc \in {"listener_start", "send", "verify", "check_loop", "scan", "sleep",
               "listener_stop", "join"}
    /\ pc' = "close"
    /\ UNCHANGED <<tc_number, msg_idx, success_count, bus_sent, listening, thread,
                   received_messages, target_idx, elapsed, join_elapsed,
                   verification_passed, ret, bus_open, phase_elapsed>>
    /\ History
    /\ Quiet
    /\ interrupted' = TRUE
    /\ UNCHANGED adapter_ops

\* ------------------------------------------------- main's finally: close()
\* "if self.listener: self.listener.stop()"
Close_stop ==
    /\ pc = "close"
    /\ listening' = FALSE
    /\ received_messages' = BufferAfterStop(received_messages)
    /\ join_elapsed' = 0
    /\ StopCalled
    /\ IF thread # "none"
       THEN /\ pc' = "close_join"
            /\ UNCHANGED <<stopped_buffer, stops_returned>>
       ELSE /\ pc' = "shutdown"
            /\ StopReturned
    /\ UNCHANGED <<tc_number, msg_idx, success_count, bus_sent, thread, target_idx,
                   elapsed, verification_passed, ret, bus_open, phase_elapsed>>
    /\ History
    /\ Did({})
    /\ UNCHANGED recv_log

Close_join ==
    /\ pc = "close_join"
    /\ JoinReturns(thread, join_elapsed)
    /\ pc' = "shutdown"
    /\ UNCHANGED <<tc_number, msg_idx, success_count, bus_sent, listening, thread,
                   received_messages, target_idx, elapsed, join_elapsed,
                   verification_passed, ret, bus_open, phase_elapsed>>
    /\ History
    /\ Did({})
    /\ StopReturned
    /\ UNCHANGED <<recv_log, stop_called_at>>

\* "if self.bus: self.bus.shutdown()"
Close_shutdown ==
    /\ pc = "shutdown"
    /\ bus_open' = FALSE
    /\ pc' = "exit"
    /\ UNCHANGED <<tc_number, msg_idx, success_count, bus_sent, listening, thread,
                   received_messages, target_idx, elapsed, join_elapsed,
                   verification_passed, ret, phase_elapsed>>
    /\ Observe

\* ------------------------------------------- capture thread: _listen
\* "while self.listening"
Listen_check ==
    /\ thread = "check"
    /\ thread' = IF listening THEN "recv" ELSE "exit"
    /\ UNCHANGED <<pc, tc_number, msg_idx, success_count, bus_sent, listening,
                   received_messages, target_idx, elapsed, join_elapsed,
                   verification_passed, ret, bus_open, phase_elapsed>>
    /\ Observe

\* "if msg: self.received_messages.append(msg)": a can.Message is always true
AppendReceived_OnlyDisplay(buffer, msg) ==
    IF msg.arbitration_id = DISPLAY_ID THEN Append(buffer, msg) ELSE buffer
AppendReceived(buffer, msg) == Append(buffer, msg)

\* "msg = self.bus.recv(timeout=0.1); if msg: self.received_messages.append(msg)"
\* recv returns a frame or nothing; on an adapter that was shut down it raises
\* and the thread ends
Listen_recv ==
    /\ thread = "recv"
    /\ IF bus_open
       THEN /\ thread' = "check"
            /\ \/ /\ UNCHANGED <<received_messages, recv_log>>
                  /\ Did({<<"capture", "recv">>})
               \/ /\ Len(recv_log) < MaxBuffer
                  /\ \E msg \in BusFrames :
                        /\ received_messages' = AppendReceived(received_messages, msg)
                        /\ recv_log' = Append(recv_log, msg)
                  /\ Did({<<"capture", "recv">>, <<"capture", "append">>})
       ELSE /\ thread' = "exit"
            /\ UNCHANGED <<received_messages, recv_log>>
            /\ Did({<<"capture", "recv">>})
    /\ UNCHANGED <<pc, tc_number, msg_idx, success_count, bus_sent, listening,
                   target_idx, elapsed, join_elapsed, verification_passed, ret,
                   bus_open, phase_elapsed>>
    /\ History
    /\ UNCHANGED <<stop_called_at, stopped_buffer, stops_returned>>

\* -------------------------------------------------------------------- time
\* Computation takes no time: besides time.sleep, a tick passes only while
\* the foreground thread is blocked in thread.join(timeout=1.0).  The capture
\* thread does not stand still meanwhile: its pending recv returns within
\* the poll interval, and its loop test takes no time.
Tick ==
    /\ InJoin
    /\ join_elapsed < JoinTimeoutTicks
    /\ thread \in {"none", "exit"} \/ (thread = "recv" /\ join_elapsed < PollTicks)
    /\ join_elapsed' = join_elapsed + 1
    /\ UNCHANGED <<pc, tc_number, msg_idx, success_count, bus_sent, listening, thread,
                   received_messages, target_idx, elapsed, verification_passed, ret,
                   bus_open, phase_elapsed>>
    /\ Observe

\* ----------------------------------------------------------- specification
MatchIdle ==
    /\ m_tool = "none"
    /\ m_msg = Frame(0, FALSE, <<>>)
    /\ m_def = [id |-> 0, extended |-> FALSE, data_pattern |-> NoData]
    /\ m_res = "unset"
    /\ m_prev = "unset"

WatchIdle ==
    /\ w_tool = "none"
    /\ w_fn = "none"
    /\ targets = <<>>
    /\ timeout = 0
    /\ collect_all = TRUE
    /\ w_pc = "idle"
    /\ w_end = "none"
    /\ w_elapsed = 0
    /\ msg_count = 0
    /\ match_count = 0
    /\ matched_messages = <<>>
    /\ match_results = <<>>
    /\ w_pulled = <<>>
    /\ w_ret = "none"

ListenerIdle ==
    /\ l_listening = FALSE
    /\ l_thread = 0
    /\ l_threads = <<>>
    /\ l_pc = "off"
    /\ l_waited = 0
    /\ l_calls = 0
    /\ l_buffer = <<>>
    /\ l_pending = <<>>
    /\ l_timeout = 0
    /\ l_elapsed = 0
    /\ l_ret = "none"
    /\ l_present = FALSE
    /\ l_overlap = FALSE

EntryIdle ==
    /\ e_point = "none"
    /\ e_names = <<>>
    /\ e_pc = "idle"
    /\ e_bus = "unopened"
    /\ e_used = FALSE
    /\ e_reported = FALSE
    /\ e_bus_at_report = "none"
    /\ e_status = "none"

\* a 32-bit quantity as its two 16-bit halves
Word(hi, lo) == [hi |-> hi, lo |-> lo]

\* no integer (Python None)
NoWord == Word(-1, -1)

DecoderIdle ==
    /\ d_tool = "none"
    /\ d_spec = <<>>
    /\ d_pc = "idle"
    /\ d_timestamp = NoWord
    /\ d_data = <<>>
    /\ d_decoded = <<>>
    /\ d_warned = {}
    /\ d_attached = <<>>

HarnessIdle ==
    /\ ListenerIdle
    /\ EntryIdle
    /\ DecoderIdle

RunStart ==
    /\ pc = "entry"
    /\ msg_idx = 0
    /\ success_count = 0
    /\ bus_sent = <<>>
    /\ listening = FALSE
    /\ thread = "none"
    /\ received_messages = <<>>
    /\ target_idx = 1
    /\ elapsed = 0
    /\ join_elapsed = 0
    /\ verification_passed = FALSE
    /\ ret = "none"
    /\ bus_open = TRUE
    /\ phase_elapsed = 0
    /\ seen_in_time = FALSE
    /\ seen_at_scan = FALSE
    /\ recv_log = <<>>
    /\ stop_called_at = 0
    /\ stopped_buffer = <<>>
    /\ stops_returned = 0
    /\ adapter_ops = {}
    /\ interrupted = FALSE

Init ==
    /\ tc_number \in TcNumbers
    /\ RunStart
    /\ MatchIdle
    /\ WatchIdle
    /\ HarnessIdle

Next ==
    \/ RunTestCase_Entry
    \/ Listener_start
    \/ Sender_send
    \/ Verification_begin
    \/ Verify_next
    \/ Check_loop
    \/ Check_scan
    \/ Check_sleep
    \/ Listener_stop
    \/ Listener_join
    \/ KeyboardInterrupt
    \/ Close_stop
    \/ Close_join
    \/ Close_shutdown
    \/ Listen_check
    \/ Listen_recv
    \/ Tick

Spec == Init /\ [][Next]_vars

\* the statements of the foreground thread, from run_test_case to close()
Foreground ==
    \/ RunTestCase_Entry
    \/ Listener_start
    \/ Sender_send
    \/ Verification_begin
    \/ Verify_next
    \/ Check_loop
    \/ Check_scan
    \/ Check_sleep
    \/ Listener_stop
    \/ Listener_join
    \/ Close_stop
    \/ Close_join
    \/ Close_shutdown

\* the statements of the capture thread
Capture == Listen_check \/ Listen_recv

\* one TC= value of each shape a table entry can have: not in the table,
\* verify_failure with one target, no messages, two targets
LiveTcNumbers == {0, 7, 9, 10}

LiveInit ==
    /\ tc_number \in LiveTcNumbers
    /\ RunStart
    /\ MatchIdle
    /\ WatchIdle
    /\ HarnessIdle

\* a time.sleep(0.01) during which the clock moves on
Sleep_advances == Check_sleep /\ elapsed' > elapsed

\* Both threads keep running and the clock keeps going: no thread that can
\* take a step waits for ever, and of the sleeps of a polling loop some see
\* the clock move.  Ctrl+C may or may not come.
LiveSpec ==
    /\ LiveInit
    /\ [][Next]_vars
    /\ WF_vars(Foreground)
    /\ WF_vars(Capture)
    /\ WF_vars(Tick)
    /\ SF_vars(Sleep_advances)

\* ======================================================== matcher harness
\* One of the three tools holds one received frame and one match target and
\* applies its matcher; the target's pattern may then be widened (positions
\* replaced by the wildcard) and the matcher applied again.

\* payload bytes of the harness: 0x00, 0x81, 0xFF
MatchBytes == {0, 129, 255}

SeqsUpTo(S, n) == UNION {[1..k -> S] : k \in 0..n}

MatchPayloads == SeqsUpTo(MatchBytes, MaxPatternLen + 1)
MatchPatterns == SeqsUpTo(MatchBytes \cup {None}, MaxPatternLen) \cup {NoData}

\* frames on the wire: a 29-bit frame may carry any identifier, an 11-bit
\* frame only one up to 0x7FF
MatchFrames ==
    {Frame(id, ext, data) : id \in {DISPLAY_ID}, ext \in {TRUE}, data \in MatchPayloads}
    \cup {Frame(id, ext, data) : id \in {TEMPERATURE_ID}, ext \in BOOLEAN,
                                 data \in MatchPayloads}

\* registry definitions: a 29-bit one (as DISPLAY_SUCCESS) and an 11-bit one
\* (as the documented Temperature Sensor example), with any pattern
MatchDefs ==
    {[id |-> DISPLAY_ID, extended |-> TRUE, data_pattern |-> p] : p \in MatchPatterns}
    \cup {[id |-> TEMPERATURE_ID, extended |-> FALSE, data_pattern |-> p] :
             p \in MatchPatterns}

\* main: "targets.append({'id': msg_def['id'], 'data': msg_def.get('data_pattern'), ...})"
TargetOf(msg_def) == [id |-> msg_def.id, data |-> msg_def.data_pattern]

\* the pattern with the positions of S replaced by the wildcard
Widened(pattern, S) ==
    [i \in 1..Len(pattern) |-> IF i \in S THEN None ELSE pattern[i]]

\* receiver: self._check_match(msg, target['id'], target['data'])
Match_receiver ==
    /\ m_tool = "receiver"
    /\ m_res = "unset"
    /\ m_res' = BoolStr(Receiver_check_match(m_msg, TargetOf(m_def).id,
                                            TargetOf(m_def).data))
    /\ UNCHANGED <<m_tool, m_msg, m_def, m_prev>>
    /\ UNCHANGED <<runVars, watchVars, harnessVars>>

\* transceiver: self._check_match(msg, target['id'], target['data'])
Match_transceiver ==
    /\ m_tool = "transceiver"
    /\ m_res = "unset"
    /\ m_res' = BoolStr(Transceiver_check_match(m_msg, TargetOf(m_def).id,
                                               TargetOf(m_def).data))
    /\ UNCHANGED <<m_tool, m_msg, m_def, m_prev>>
    /\ UNCHANGED <<runVars, watchVars, harnessVars>>

\* listener: check_message_received(expected_id, expected_data) with the
\* frame in the buffer
Match_listener ==
    /\ m_tool = "listener"
    /\ m_res = "unset"
    /\ m_res' = ScanBuffer(<<m_msg>>, TargetOf(m_def).id, TargetOf(m_def).data)
    /\ UNCHANGED <<m_tool, m_msg, m_def, m_prev>>
    /\ UNCHANGED <<runVars, watchVars, harnessVars>>

\* the same frame is matched next against a widening of the pattern
Match_widen ==
    /\ m_res # "unset"
    /\ m_def.data_pattern # NoData
    /\ \E S \in (SUBSET (1..Len(m_def.data_pattern))) \ {{}} :
          m_def' = [m_def EXCEPT !.data_pattern = Widened(m_def.data_pattern, S)]
    /\ m_prev' = m_res
    /\ m_res' = "unset"
    /\ UNCHANGED <<m_tool, m_msg>>
    /\ UNCHANGED <<runVars, watchVars, harnessVars>>

MatchInit ==
    /\ tc_number = 0
    /\ RunStart
    /\ m_tool \in {"receiver", "transceiver", "listener"}
    /\ m_msg \in MatchFrames
    /\ m_def \in MatchDefs
    /\ m_res = "unset"
    /\ m_prev = "unset"
    /\ WatchIdle
    /\ HarnessIdle

MatchNext ==
    \/ Match_receiver
    \/ Match_transceiver
    \/ Match_listener
    \/ Match_widen

MatchSpec == MatchInit /\ [][MatchNext]_vars

\* ========================================================== watch sessions
\* wait_for_message / wait_for_messages of the receiver and the transceiver:
\* one poll loop over bus.recv(timeout=0.1).  A tick is one poll interval; a
\* recv that returns nothing has blocked for the whole interval.

\* registry entries the watch targets are built from
WatchRegistry ==
    ("BI_USAGE" :> [id |-> BI_USAGE_ID, data_pattern |-> NoData]) @@
    ("DISPLAY_SUCCESS" :> [id |-> DISPLAY_ID, data_pattern |-> <<255, 0, 129>>]) @@
    ("DISPLAY_ERROR" :> [id |-> DISPLAY_ID, data_pattern |-> <<255, 0, 129>>])

\* main: "targets.append({'id': ..., 'data': ..., 'decode_info': ..., 'name': msg_name})"
WatchTarget(msg_name) ==
    [id |-> WatchRegistry[msg_name].id, data |-> WatchRegistry[msg_name].data_pattern,
     name |-> msg_name]

\* MSG= lists: up to MaxTargets registry names, none repeated
PredefinedLists ==
    {l \in UNION {[1..k -> DOMAIN WatchRegistry] : k \in 1..MaxTargets} :
        \A i, j \in 1..Len(l) : i # j => l[i] # l[j]}

TargetsOf(predefined_list) ==
    [j \in 1..Len(predefined_list) |-> WatchTarget(predefined_list[j])]

\* frames the bus may deliver during a watch session
WatchFrames ==
    { Frame(DISPLAY_ID, TRUE, <<255, 0, 129>>),
      Frame(BI_USAGE_ID, TRUE, <<0, 0>>) }

\* bus.recv returned None
NoFrame == Frame(-1, FALSE, <<>>)

\* self._check_match of the tool that runs the session
CheckMatch(tool, msg, target_id, target_data) ==
    IF tool = "receiver" THEN Receiver_check_match(msg, target_id, target_data)
    ELSE Transceiver_check_match(msg, target_id, target_data)

\* "for target in targets: if self._check_match(...): matched_target = target;
\* break": index of the matched target, 0 for None
RECURSIVE matched_target_from(_, _, _, _)
matched_target_from(tool, tgts, msg, j) ==
    IF j > Len(tgts) THEN 0
    ELSE IF CheckMatch(tool, msg, tgts[j].id, tgts[j].data) THEN j
    ELSE matched_target_from(tool, tgts, msg, j + 1)

matched_target(tool, tgts, msg) == matched_target_from(tool, tgts, msg, 1)

\* key = f"0x{target['id']:X}"
KeyOf(target) == target.id

\* "for target in targets: match_results[key] = {'name': ..., 'count': 0,
\* 'matches': []}": a later target with the same key replaces the entry
InitialResults(tgts) ==
    [k \in {KeyOf(tgts[j]) : j \in 1..Len(tgts)} |->
        LET last == CHOOSE j \in 1..Len(tgts) :
                        /\ KeyOf(tgts[j]) = k
                        /\ \A i \in 1..Len(tgts) : KeyOf(tgts[i]) = k => i <= j
        IN  [name |-> tgts[last].name, count |-> 0, matches |-> <<>>]]

\* the dict appended on a match; frame_no (the frame's position among the
\* frames pulled) is kept for the record only
MatchEvent(msg, now, n) == [message |-> msg, time_from_start |-> now, frame_no |-> n]

\* "matches.append({...})"
RecordMatch_Prepend(matches, event) == <<event>> \o matches
RecordMatch(matches, event) == Append(matches, event)

\* "if not collect_all: break"
BreakOnMatch_Never(all) == FALSE
BreakOnMatch_Always(all) == TRUE
BreakOnMatch(all) == ~all

\* "if timeout > 0 and (time.time() - start_time) > timeout: break"
TimedOut_Never(t, e) == FALSE
TimedOut(t, e) == t > 0 /\ e > t

\* "return match_count > 0" / "return total_matches > 0"
ReturnValue_Never(total) == "False"
ReturnValue(total) == IF total > 0 THEN "True" ELSE "False"

SumCounts_KeysHit(results, keys) == Cardinality({k \in keys : results[k].count > 0})
RECURSIVE SumCounts(_, _)
SumCounts(results, keys) ==
    IF keys = {} THEN 0
    ELSE LET k == CHOOSE x \in keys : TRUE
         IN  results[k].count + SumCounts(results, keys \ {k})

\* "total_matches = sum(r['count'] for r in match_results.values())", and
\* match_count on the single-target path
total_matches ==
    IF w_fn = "wait_for_message" THEN match_count
    ELSE SumCounts(match_results, DOMAIN match_results)

\* the clock of a session is followed up to this many ticks
WatchHorizon == MaxWatchTimeout + 2

\* top of "while True": the timeout test, then the call of bus.recv
Watch_loop ==
    /\ w_pc = "loop"
    /\ IF TimedOut(timeout, w_elapsed)
       THEN /\ w_pc' = "summary"
            /\ w_end' = "timeout"
       ELSE /\ w_pc' = "recv"
            /\ w_end' = w_end
    /\ UNCHANGED <<w_tool, w_fn, targets, timeout, collect_all, w_elapsed, msg_count,
                   match_count, matched_messages, match_results, w_pulled, w_ret>>
    /\ UNCHANGED <<runVars, matchVars, harnessVars>>

\* wait_for_message: the rest of the iteration once recv returned msg
Single_handle(msg, now) ==
    LET is_match == CheckMatch(w_tool, msg, targets[1].id, targets[1].data)
    IN  /\ match_count' = IF is_match THEN match_count + 1 ELSE match_count
        /\ matched_messages' =
              IF is_match
              THEN RecordMatch(matched_messages, MatchEvent(msg, now, msg_count + 1))
              ELSE matched_messages
        /\ IF is_match /\ BreakOnMatch(collect_all)
           THEN w_pc' = "summary" /\ w_end' = "match"
           ELSE w_pc' = "loop" /\ w_end' = w_end
        /\ UNCHANGED match_results

\* wait_for_messages: the rest of the iteration once recv returned msg
Multi_handle(msg, now) ==
    LET j == matched_target(w_tool, targets, msg)
        key == KeyOf(targets[j])
    IN  /\ match_results' =
              IF j # 0
              THEN [match_results EXCEPT
                      ![key].count = @ + 1,
                      ![key].matches = RecordMatch(@, MatchEvent(msg, now, msg_count + 1))]
              ELSE match_results
        /\ IF j # 0 /\ BreakOnMatch(collect_all)
           THEN w_pc' = "summary" /\ w_end' = "match"
           ELSE w_pc' = "loop" /\ w_end' = w_end
        /\ UNCHANGED <<match_count, matched_messages>>

\* "msg = self.bus.recv(timeout=0.1)" and the rest of the iteration: recv
\* returns a frame after d ticks, or nothing after the whole poll interval
Watch_recv ==
    /\ w_pc = "recv"
    /\ \E d \in 0..PollTicks : \E msg \in WatchFrames \cup {NoFrame} :
         /\ d > 0 => w_elapsed < WatchHorizon
         /\ msg = NoFrame => d = PollTicks
         /\ msg # NoFrame => msg_count < MaxWatchFrames
         /\ w_elapsed' = w_elapsed + d
         /\ IF msg = NoFrame
            THEN /\ w_pc' = "loop"
                 /\ UNCHANGED <<w_end, msg_count, match_count, matched_messages,
                                match_results, w_pulled>>
            ELSE /\ msg_count' = msg_count + 1
                 /\ w_pulled' = Append(w_pulled, [message |-> msg, at |-> w_elapsed + d])
                 /\ IF w_fn = "wait_for_message"
                    THEN Single_handle(msg, w_elapsed + d)
                    ELSE Multi_handle(msg, w_elapsed + d)
    /\ UNCHANGED <<w_tool, w_fn, targets, timeout, collect_all, w_ret>>
    /\ UNCHANGED <<runVars, matchVars, harnessVars>>

\* Ctrl+C: "except KeyboardInterrupt" around the loop
Watch_interrupt ==
    /\ w_pc \in {"loop", "recv"}
    /\ w_pc' = "summary"
    /\ w_end' = "interrupt"
    /\ UNCHANGED <<w_tool, w_fn, targets, timeout, collect_all, w_elapsed, msg_count,
                   match_count, matched_messages, match_results, w_pulled, w_ret>>
    /\ UNCHANGED <<runVars, matchVars, harnessVars>>

\* the summary is printed and the boolean returned
Watch_return ==
    /\ w_pc = "summary"
    /\ w_ret' = ReturnValue(total_matches)
    /\ w_pc' = "done"
    /\ UNCHANGED <<w_tool, w_fn, targets, timeout, collect_all, w_end, w_elapsed,
                   msg_count, match_count, matched_messages, match_results, w_pulled>>
    /\ UNCHANGED <<runVars, matchVars, harnessVars>>

\* a session right after "start_time = time.time()" and the set-up of the
\* counters; wait_for_message takes a single target
WatchInit ==
    /\ tc_number = 0
    /\ RunStart
    /\ MatchIdle
    /\ HarnessIdle
    /\ w_tool \in {"receiver", "transceiver"}
    /\ w_fn \in {"wait_for_message", "wait_for_messages"}
    /\ targets \in {TargetsOf(l) : l \in PredefinedLists}
    /\ w_fn = "wait_for_message" => Len(targets) = 1
    /\ timeout \in 0..MaxWatchTimeout
    /\ collect_all \in BOOLEAN
    /\ w_pc = "loop"
    /\ w_end = "none"
    /\ w_elapsed = 0
    /\ msg_count = 0
    /\ match_count = 0
    /\ matched_messages = <<>>
    /\ match_results = IF w_fn = "wait_for_messages" THEN InitialResults(targets) ELSE <<>>
    /\ w_pulled = <<>>
    /\ w_ret = "none"

WatchNext ==
    \/ Watch_loop
    \/ Watch_recv
    \/ Watch_interrupt
    \/ Watch_return

WatchSpec == WatchInit /\ [][WatchNext]_vars

\* the session keeps running unless it is interrupted: the loop goes on, recv
\* returns, the summary is printed
WatchLiveSpec ==
    /\ WatchSpec
    /\ WF_vars(Watch_loop)
    /\ WF_vars(Watch_recv)
    /\ WF_vars(Watch_return)

\* ============================================================ entry points
\* main of the receiver and of the transceiver, from the command line to the
\* exit of the process.  What a session or a send does in between is kept
\* to its outcome.

\* the entry points that take message names: receiver "MSG=", transceiver
\* "MSG=" (receiver style), transceiver "--listen", transceiver "--send --msg"
EntryPoints == {"receiver", "transceiver_msg", "transceiver_listen", "transceiver_send"}

\* a name that is not a key of PREDEFINED_MESSAGES
UnknownName == "NO_SUCH_MESSAGE"

EntryNames == DOMAIN WatchRegistry \cup {UnknownName}

NameLists == UNION {[1..k -> EntryNames] : k \in 1..MaxNames}

\* "msg_name in PREDEFINED_MESSAGES"
Known(msg_name) == msg_name \in DOMAIN WatchRegistry

HasUnknown(names) == \E i \in 1..Len(names) : ~Known(names[i])

\* print("Unknown: ...") / print("Unknown message: ...") /
\* print("Error: Message ... not found in configuration")
ReportUnknown ==
    /\ e_reported' = TRUE
    /\ e_bus_at_report' = e_bus

\* parse_arguments / parse_receiver_style_arguments check every MSG= name and
\* leave with sys.exit(1) at the first unknown one; argparse takes --listen
\* and --msg as plain strings
E_parse ==
    /\ e_pc = "parse"
    /\ IF e_point \in {"receiver", "transceiver_msg"} /\ HasUnknown(e_names)
       THEN /\ ReportUnknown
            /\ e_status' = 1
            /\ e_pc' = "exit"
       ELSE /\ e_pc' = "open"
            /\ UNCHANGED <<e_reported, e_bus_at_report, e_status>>
    /\ UNCHANGED <<e_point, e_names, e_bus, e_used>>
    /\ UNCHANGED <<runVars, matchVars, watchVars, lstVars, decVars>>

\* CANReceiver(...) / CANTransceiver(...): can.Bus opens the adapter, or the
\* constructor leaves with sys.exit(1)
E_open ==
    /\ e_pc = "open"
    /\ \E ok \in BOOLEAN :
         IF ok
         THEN /\ e_bus' = "open"
              /\ e_pc' = "dispatch"
              /\ e_status' = e_status
         ELSE /\ e_bus' = e_bus
              /\ e_pc' = "exit"
              /\ e_status' = 1
    /\ UNCHANGED <<e_point, e_names, e_used, e_reported, e_bus_at_report>>
    /\ UNCHANGED <<runVars, matchVars, watchVars, lstVars, decVars>>

\* inside main's try: the targets are built from the names; --listen checks
\* each name here and leaves with sys.exit(1) at an unknown one; --send --msg
\* calls send_predefined_message
E_dispatch ==
    /\ e_pc = "dispatch"
    /\ IF e_point = "transceiver_send"
       THEN /\ e_pc' = "send_predefined"
            /\ UNCHANGED <<e_reported, e_bus_at_report, e_status>>
       ELSE IF e_point = "transceiver_listen" /\ HasUnknown(e_names)
       THEN /\ ReportUnknown
            /\ e_status' = 1
            /\ e_pc' = "close"
       ELSE /\ e_pc' = "session"
            /\ UNCHANGED <<e_reported, e_bus_at_report, e_status>>
    /\ UNCHANGED <<e_point, e_names, e_bus, e_used>>
    /\ UNCHANGED <<runVars, matchVars, watchVars, lstVars, decVars>>

\* CANTransceiver.send_predefined_message and the sys.exit that follows: an
\* unknown name is reported and False returned; without data nothing is
\* sent; else send_message calls bus.send, which succeeds or raises
E_send_predefined ==
    /\ e_pc = "send_predefined"
    /\ IF ~Known(e_names[1])
       THEN /\ ReportUnknown
            /\ e_status' = 1
            /\ e_used' = e_used
       ELSE /\ UNCHANGED <<e_reported, e_bus_at_report>>
            /\ \E r \in {"no_data", "sent", "failed"} :
                 /\ e_used' = (e_used \/ r # "no_data")
                 /\ e_status' = IF r = "sent" THEN 0 ELSE 1
    /\ e_pc' = "close"
    /\ UNCHANGED <<e_point, e_names, e_bus>>
    /\ UNCHANGED <<runVars, matchVars, watchVars, lstVars, decVars>>

\* exit status after wait_for_message(s): "sys.exit(0 if found else 1)";
\* Ctrl+C is caught inside the session; an exception of bus.recv leaves main
\* through finally (the receiver's outer except then exits with 1)
StatusAfter(point, outcome) ==
    CASE outcome = "match" -> 0
      [] outcome = "timeout" -> 1
      [] outcome = "interrupt" -> 1
      [] OTHER -> IF point = "receiver" THEN 1 ELSE "traceback"

\* wait_for_message / wait_for_messages: the session polls bus.recv and ends
\* with a match, by timeout, by Ctrl+C or by an exception of recv
E_session ==
    /\ e_pc = "session"
    /\ e_used' = TRUE
    /\ \E outcome \in {"match", "timeout", "interrupt", "exception"} :
         e_status' = StatusAfter(e_point, outcome)
    /\ e_pc' = "close"
    /\ UNCHANGED <<e_point, e_names, e_bus, e_reported, e_bus_at_report>>
    /\ UNCHANGED <<runVars, matchVars, watchVars, lstVars, decVars>>

\* close(): "if self.bus: self.bus.shutdown()"
BusAfterClose_Leaves(b) == b
BusAfterClose(b) == "closed"

\* main's "finally: receiver.close()" / "finally: transceiver.close()"
E_close ==
    /\ e_pc = "close"
    /\ e_bus' = BusAfterClose(e_bus)
    /\ e_pc' = "exit"
    /\ UNCHANGED <<e_point, e_names, e_used, e_reported, e_bus_at_report, e_status>>
    /\ UNCHANGED <<runVars, matchVars, watchVars, lstVars, decVars>>

EntryInit ==
    /\ tc_number = 0
    /\ RunStart
    /\ MatchIdle
    /\ WatchIdle
    /\ ListenerIdle
    /\ DecoderIdle
    /\ e_point \in EntryPoints
    /\ e_names \in NameLists
    /\ e_point = "transceiver_send" => Len(e_names) = 1
    /\ e_pc = "parse"
    /\ e_bus = "unopened"
    /\ e_used = FALSE
    /\ e_reported = FALSE
    /\ e_bus_at_report = "none"
    /\ e_status = "none"

EntryNext ==
    \/ E_parse
    \/ E_open
    \/ E_dispatch
    \/ E_send_predefined
    \/ E_session
    \/ E_close

EntrySpec == EntryInit /\ [][EntryNext]_vars

\* ================================================================ decoders
\* _decode_special_fields of the receiver and of the transceiver, applied to
\* the payload of a frame that came from the bus or was built by
\* build_fc08_data.

\* one entry of a special_decode dict: 'bytes' (or the single 'byte') as a
\* list of offsets, 'endian' with its default 'little', 'bit' with its
\* default 0
Field(name, type, bytes, endian, bit) ==
    [name |-> name, type |-> type, bytes |-> bytes, endian |-> endian, bit |-> bit]

\* the special_decode dicts of the registry, and the one of the example the
\* configuration file gives for a new entry (TEMP_SENSOR)
special_decode ==
    [ BI_RESULTS |->
        << Field("cycle_number", "16bit", <<0, 1>>, "little", 0),
           Field("bi_result", "nibble_lower", <<2>>, "little", 0),
           Field("timestamp", "32bit", <<3, 4, 5, 6>>, "little", 0),
           Field("cycle_status", "byte_enum", <<7>>, "little", 0) >>,
      BI_USAGE |->
        << Field("days_from_due", "16bit_signed", <<0, 1>>, "little", 0)
              @@ [status_func |-> "days"] >>,
      \* 'epoch_base': 1451606400 = 22149 * 65536 + 49536
      CURRENT_DATETIME_DISPLAY |->
        << Field("timestamp", "32bit", <<0, 1, 2, 3>>, "little", 0)
              @@ [epoch_base |-> Word(22149, 49536)] >>,
      PRODUCT_IN_USE |->
        << Field("in_use_status", "bit_field", <<0>>, "little", 0) >>,
      TEMP_SENSOR |->
        << Field("temperature", "16bit", <<0, 1>>, "big", 0),
           Field("status", "byte_enum", <<2>>, "little", 0) >> ]

\* dicts of entries someone may add: a kind the configuration file lists as
\* available, a '16bit' field with one offset, a 'type' no decoder knows, a
\* 'status_func' that raises on some values
AddedSpecs ==
    { << Field("level", "16bit_signed", <<0, 1>>, "little", 0)
              @@ [status_func |-> "strict"],
         Field("whole", "byte_enum", <<0>>, "little", 0) >> } \cup
    { << Field("upper", "nibble_upper", <<0>>, "little", 0),
         Field("lower", "nibble_lower", <<0>>, "little", 0) >>,
      << Field("short", "16bit", <<0>>, "little", 0),
         Field("whole", "byte_enum", <<0>>, "little", 0) >>,
      << Field("ratio", "float", <<0, 1>>, "little", 0),
         Field("whole", "byte_enum", <<0>>, "little", 0) >> }

DecodeSpecs == {special_decode[n] : n \in DOMAIN special_decode} \cup AddedSpecs

\* payloads tried: every combination of a few byte values up to
\* MaxShortPayload bytes, and every prefix of two full-length payloads
DecodePayloads ==
    LET DecodeBytes == {0, 1, 127, 128, 255}
        LongPayloads == { <<1, 0, 18, 255, 255, 255, 255, 2>>,
                          <<255, 127, 240, 0, 1, 128, 0, 255>> }
    IN  UNION {[1..k -> DecodeBytes] : k \in 0..MaxShortPayload}
        \cup {SubSeq(f, 1, k) : f \in LongPayloads, k \in 0..MAX_DLC}

\* timestamps tried, by their 16-bit halves
Timestamps ==
    LET Halves == {0, 1, 255, 256, 32767, 32768, 65535}
    IN  {Word(hi, lo) : hi \in Halves, lo \in Halves}

\* "(timestamp >> 8 * k) & 0xFF" for k = 0..3
ByteOfWord(t, k) ==
    CASE k = 0 -> t.lo % 256
      [] k = 1 -> (t.lo \div 256) % 256
      [] k = 2 -> t.hi % 256
      [] OTHER -> (t.hi \div 256) % 256

\* CANTransceiver.build_fc08_data with a timestamp given
build_fc08_data_BigEndian(timestamp) ==
    << ByteOfWord(timestamp, 3), ByteOfWord(timestamp, 2),
       ByteOfWord(timestamp, 1), ByteOfWord(timestamp, 0), 0 >>
build_fc08_data(timestamp) ==
    << ByteOfWord(timestamp, 0), ByteOfWord(timestamp, 1),
       ByteOfWord(timestamp, 2), ByteOfWord(timestamp, 3), 0 >>

\* outcomes of one iteration of "for field_name, field_info in ...": the
\* field is stored, nothing is stored, or an exception is caught and the
\* warning printed
Stored(value) == [kind |-> "value", value |-> value]
Omitted == [kind |-> "omitted", value |-> 0]
Warning == [kind |-> "warning", value |-> 0]

\* msg.data[byte_indices[i]] with i counted from 0
ByteAt(data, bytes, i) == data[bytes[i + 1] + 1]

\* "all(idx < len(msg.data) for idx in byte_indices)" and
\* "len(msg.data) > max(bytes_idx)"
InRange(data, bytes) == \A i \in 1..Len(bytes) : bytes[i] < Len(data)

\* the 16-bit combination of both tools
Combine16(data, f) ==
    IF f.endian = "little"
    THEN ByteAt(data, f.bytes, 0) + 256 * ByteAt(data, f.bytes, 1)
    ELSE 256 * ByteAt(data, f.bytes, 0) + ByteAt(data, f.bytes, 1)

\* the 32-bit combination of both tools
Combine32(data, f) ==
    IF f.endian = "little"
    THEN Word(ByteAt(data, f.bytes, 2) + 256 * ByteAt(data, f.bytes, 3),
              ByteAt(data, f.bytes, 0) + 256 * ByteAt(data, f.bytes, 1))
    ELSE Word(256 * ByteAt(data, f.bytes, 0) + ByteAt(data, f.bytes, 1),
              256 * ByteAt(data, f.bytes, 2) + ByteAt(data, f.bytes, 3))

\* "raw_value if raw_value < 0x8000 else raw_value - 0x10000", and
\* struct.unpack('<h', struct.pack('<H', raw))
Signed16(raw) == IF raw < 32768 THEN raw ELSE raw - 65536

\* the multi-byte kinds: with no offset at all max([]) / byte_indices[0]
\* raises, with an offset that is out of range the field is left out, with
\* too few offsets bytes_idx[1] raises IndexError
MultiByte(data, f, need, value) ==
    IF f.bytes = <<>> THEN Warning
    ELSE IF ~InRange(data, f.bytes) THEN Omitted
    ELSE IF Len(f.bytes) < need THEN Warning
    ELSE Stored(value)

\* the single-byte kinds: "if len(msg.data) > byte_idx"
SingleByte(data, f, value) ==
    IF f.bytes = <<>> THEN Warning
    ELSE IF ~(Len(data) > f.bytes[1]) THEN Omitted
    ELSE Stored(value)

\* the kinds both tools decode in the same way
Common_decode_field(data, f) ==
    CASE f.type = "16bit" -> MultiByte(data, f, 2, Combine16(data, f))
      [] f.type = "32bit" -> MultiByte(data, f, 4, Combine32(data, f))
      [] f.type = "16bit_signed" ->
            MultiByte(data, f, 2, Signed16(Combine16(data, f)))
      [] f.type = "nibble_lower" -> SingleByte(data, f, ByteAt(data, f.bytes, 0) % 16)
      [] f.type = "byte_enum" -> SingleByte(data, f, ByteAt(data, f.bytes, 0))
      [] f.type = "bit_field" ->
            SingleByte(data, f, (ByteAt(data, f.bytes, 0) \div (2 ^ f.bit)) % 2)
      [] OTHER -> Omitted

\* CANReceiver._decode_special_fields, one field: no branch for nibble_upper
Receiver_decode_field(data, f) == Common_decode_field(data, f)

\* CANTransceiver._decode_special_fields, one field
Transceiver_decode_field(data, f) ==
    IF f.type = "nibble_upper"
    THEN SingleByte(data, f, (ByteAt(data, f.bytes, 0) \div 16) % 16)
    ELSE Common_decode_field(data, f)

decode_field(tool, data, f) ==
    IF tool = "receiver" THEN Receiver_decode_field(data, f)
    ELSE Transceiver_decode_field(data, f)

FieldsWith(tool, data, spec, kind) ==
    {i \in 1..Len(spec) : decode_field(tool, data, spec[i]).kind = kind}

\* "value + field_info['epoch_base']": a Python integer does not wrap, so the
\* upper half of the sum may pass 16 bits
AddWords(a, b) ==
    LET lo == a.lo + b.lo
    IN  Word(a.hi + b.hi + (lo \div 65536), lo % 65536)

\* datetime.fromtimestamp(unix_ts, tz=timezone.utc) as <<year, month, day,
\* hour, minute, second>>, the numbers strftime("%Y-%m-%d %H:%M:%S UTC")
\* prints; 86400 = 128 * 675
fromtimestamp(unix_ts) ==
    LET q128 == unix_ts.hi * 512 + (unix_ts.lo \div 128)
        days == q128 \div 675
        secs == (q128 % 675) * 128 + (unix_ts.lo % 128)
        z == days + 719468
        era == z \div 146097
        doe == z % 146097
        yoe == (doe - (doe \div 1460) + (doe \div 36524) - (doe \div 146096)) \div 365
        doy == doe - (365 * yoe + (yoe \div 4) - (yoe \div 100))
        mp == (5 * doy + 2) \div 153
        month == IF mp < 10 THEN mp + 3 ELSE mp - 9
    IN  << yoe + era * 400 + (IF month <= 2 THEN 1 ELSE 0), month,
           doy - ((153 * mp + 2) \div 5) + 1,
           secs \div 3600, (secs \div 60) % 60, secs % 60 >>

\* field_info['status_func'](value): the rule of BI_USAGE ("days") and a
\* rule that raises on a negative value ("strict"); <<"raised", 0>> stands
\* for the exception
status_func(rule, val) ==
    IF rule = "days"
    THEN IF val < 0 THEN <<"OVERDUE by", -val>>
         ELSE IF val = 0 THEN <<"DUE TODAY", 0>>
         ELSE <<"Due in", val>>
    ELSE IF val < 0 THEN <<"raised", 0>> ELSE <<"level", val>>

\* what the result of a stored field carries besides 'value':
\* 'unix_timestamp' and 'datetime' (transceiver, '32bit' with 'epoch_base'),
\* 'status' ('16bit_signed' with 'status_func'); NoWord and <<>> where the
\* key is absent.  raised: the status rule raised
Extras(tool, data, f) ==
    LET epoch == tool = "transceiver" /\ f.type = "32bit" /\ "epoch_base" \in DOMAIN f
        unix_ts == AddWords(Combine32(data, f), f.epoch_base)
        ruled == f.type = "16bit_signed" /\ "status_func" \in DOMAIN f
        status == status_func(f.status_func, Signed16(Combine16(data, f)))
        raised == ruled /\ status = <<"raised", 0>>
    IN  [ unix_timestamp |-> IF epoch THEN unix_ts ELSE NoWord,
          datetime |-> IF epoch THEN fromtimestamp(unix_ts) ELSE <<>>,
          status |-> IF ruled /\ ~raised THEN status ELSE <<>>,
          raised |-> raised ]

\* the dict returned: the value stored for each field that was stored
decode_special_fields_OneTry(tool, data, spec) ==
    LET failed == FieldsWith(tool, data, spec, "warning")
        kept == {i \in FieldsWith(tool, data, spec, "value") : \A j \in failed : i < j}
    IN  [name \in {spec[i].name : i \in kept} |->
            LET i == CHOOSE j \in 1..Len(spec) : spec[j].name = name
            IN  decode_field(tool, data, spec[i]).value]
decode_special_fields(tool, data, spec) ==
    [name \in {spec[i].name : i \in FieldsWith(tool, data, spec, "value")} |->
        LET i == CHOOSE j \in 1..Len(spec) : spec[j].name = name
        IN  decode_field(tool, data, spec[i]).value]

\* "from can_messages_config import PREDEFINED_MESSAGES": the dict is taken
\* as it is written
D_load ==
    /\ d_pc = "load"
    /\ d_pc' = "ready"
    /\ UNCHANGED <<d_tool, d_spec, d_timestamp, d_data, d_decoded, d_warned, d_attached>>
    /\ UNCHANGED <<runVars, matchVars, watchVars, lstVars, entryVars>>

\* a frame of the definition arrives from the bus
D_receive ==
    /\ d_pc = "ready"
    /\ d_data' \in DecodePayloads
    /\ d_pc' = "framed"
    /\ UNCHANGED <<d_tool, d_spec, d_timestamp, d_decoded, d_warned, d_attached>>
    /\ UNCHANGED <<runVars, matchVars, watchVars, lstVars, entryVars>>

\* the frame was built by a transceiver's build_fc08_data(timestamp)
D_build ==
    /\ d_pc = "ready"
    /\ \E t \in Timestamps :
         /\ d_timestamp' = t
         /\ d_data' = build_fc08_data(t)
    /\ d_pc' = "framed"
    /\ UNCHANGED <<d_tool, d_spec, d_decoded, d_warned, d_attached>>
    /\ UNCHANGED <<runVars, matchVars, watchVars, lstVars, entryVars>>

\* _print_match_details: "decoded = self._decode_special_fields(msg, ...)"
D_decode ==
    /\ d_pc = "framed"
    /\ d_decoded' = decode_special_fields(d_tool, d_data, d_spec)
    /\ d_attached' =
          [name \in DOMAIN d_decoded' |->
              LET i == CHOOSE j \in 1..Len(d_spec) : d_spec[j].name = name
              IN  Extras(d_tool, d_data, d_spec[i])]
    \* the receiver calls the status rule inside the field's try block, after
    \* the field is stored: a rule that raises prints the warning as well
    /\ d_warned' =
          {d_spec[i].name : i \in FieldsWith(d_tool, d_data, d_spec, "warning")}
          \cup {name \in DOMAIN d_decoded' :
                    d_tool = "receiver" /\ d_attached'[name].raised}
    /\ d_pc' = "done"
    /\ UNCHANGED <<d_tool, d_spec, d_timestamp, d_data>>
    /\ UNCHANGED <<runVars, matchVars, watchVars, lstVars, entryVars>>

DecodeInit ==
    /\ tc_number = 0
    /\ RunStart
    /\ MatchIdle
    /\ WatchIdle
    /\ ListenerIdle
    /\ EntryIdle
    /\ d_tool \in {"receiver", "transceiver"}
    /\ d_spec \in DecodeSpecs
    /\ d_pc = "load"
    /\ d_timestamp = NoWord
    /\ d_data = <<>>
    /\ d_decoded = <<>>
    /\ d_warned = {}
    /\ d_attached = <<>>

DecodeNext ==
    \/ D_load
    \/ D_receive
    \/ D_build
    \/ D_decode

DecodeSpec == DecodeInit /\ [][DecodeNext]_vars

\* ============================================== a process of either kind
\* A process is a scripted run (sender), a watch session (receiver,
\* transceiver) or a main of the receiver or transceiver from its command
\* line on.  The runs are those of one test case of each shape: not in the
\* table, verify_success with one target, stimulus frames ahead of the start
\* pair (test case 8), two targets.
OutcomeTcNumbers == {0, 1, 8, 10}

OutcomeInit ==
    \/ /\ tc_number \in OutcomeTcNumbers
       /\ RunStart
       /\ MatchIdle
       /\ WatchIdle
       /\ HarnessIdle
    \/ WatchInit
    \/ EntryInit

OutcomeNext ==
    \/ (w_pc = "idle" /\ e_pc = "idle" /\ Next)
    \/ WatchNext
    \/ EntryNext

OutcomeSpec == OutcomeInit /\ [][OutcomeNext]_vars

\* ======================================================== listener harness
\* One CANListener whose start() and stop() are called in any order by a
\* single caller; every capture thread ever created is followed.

\* the caller's part of the state that a step of a capture thread leaves
\* alone, and the other way round
l_caller == <<l_listening, l_thread, l_pc, l_waited, l_calls, l_timeout, l_elapsed,
              l_ret, l_present, l_overlap>>

\* start(): the flag is set, a new list is bound to received_messages and a
\* new thread is created and started, whatever self.thread holds
L_start ==
    /\ l_pc = "idle"
    /\ l_calls < MaxCalls
    /\ l_calls' = l_calls + 1
    /\ l_listening' = TRUE
    /\ l_buffer' = <<>>
    /\ l_threads' = Append(l_threads, "check")
    /\ l_pending' = Append(l_pending, NoFrame)
    /\ l_thread' = Len(l_threads) + 1
    /\ l_overlap' = (l_overlap \/ \E i \in 1..Len(l_threads) : l_threads[i] # "exit")
    /\ UNCHANGED <<l_pc, l_waited, l_timeout, l_elapsed, l_ret, l_present>>
    /\ UNCHANGED <<runVars, matchVars, watchVars, entryVars, decVars>>

\* stop(): the flag is cleared, then "if self.thread: self.thread.join(...)"
L_stop ==
    /\ l_pc = "idle"
    /\ l_calls < MaxCalls
    /\ l_calls' = l_calls + 1
    /\ l_listening' = FALSE
    /\ l_waited' = 0
    /\ l_pc' = IF l_thread # 0 THEN "join" ELSE "idle"
    /\ UNCHANGED <<l_thread, l_threads, l_buffer, l_pending, l_timeout, l_elapsed,
                   l_ret, l_present, l_overlap>>
    /\ UNCHANGED <<runVars, matchVars, watchVars, entryVars, decVars>>

\* the join of stop() returns
L_join ==
    /\ l_pc = "join"
    /\ JoinReturns(l_threads[l_thread], l_waited)
    /\ l_pc' = "idle"
    /\ UNCHANGED <<l_listening, l_thread, l_threads, l_waited, l_calls, l_buffer,
                   l_pending, l_timeout, l_elapsed, l_ret, l_present, l_overlap>>
    /\ UNCHANGED <<runVars, matchVars, watchVars, entryVars, decVars>>

\* the frames of the buffer, in order
l_messages == [i \in 1..Len(l_buffer) |-> l_buffer[i].msg]

\* check_message_received(expected_id, expected_data, timeout) is called:
\* "start_time = time.time()"
L_query ==
    /\ l_pc = "idle"
    /\ l_calls < MaxCalls
    /\ l_calls' = l_calls + 1
    /\ l_timeout' \in 0..MaxCheckTimeout
    /\ l_elapsed' = 0
    /\ l_ret' = "none"
    /\ l_present' =
          (ScanBuffer(l_messages, DisplayTarget.id, DisplayTarget.data) = "True")
    /\ l_pc' = "poll"
    /\ UNCHANGED <<l_listening, l_thread, l_threads, l_waited, l_buffer, l_pending,
                   l_overlap>>
    /\ UNCHANGED <<runVars, matchVars, watchVars, entryVars, decVars>>

\* one turn of "while time.time() - start_time < timeout": a pass over the
\* buffer and, nothing found, time.sleep(0.01); the loop left, (False, None)
L_poll ==
    /\ l_pc = "poll"
    /\ IF l_elapsed < l_timeout
       THEN IF ScanBuffer(l_messages, DisplayTarget.id, DisplayTarget.data) = "True"
            THEN /\ l_ret' = "True"
                 /\ l_pc' = "idle"
                 /\ UNCHANGED l_elapsed
            ELSE /\ \E d \in {0, 1} : l_elapsed' = l_elapsed + d
                 /\ UNCHANGED <<l_ret, l_pc>>
       ELSE /\ l_ret' = "False"
            /\ l_pc' = "idle"
            /\ UNCHANGED l_elapsed
    /\ UNCHANGED <<l_listening, l_thread, l_threads, l_waited, l_calls, l_buffer,
                   l_pending, l_timeout, l_present, l_overlap>>
    /\ UNCHANGED <<runVars, matchVars, watchVars, entryVars, decVars>>

\* _listen of thread i: "while self.listening"
L_check ==
    /\ \E i \in 1..Len(l_threads) :
          /\ l_threads[i] = "check"
          /\ l_threads' = [l_threads EXCEPT ![i] = IF l_listening THEN "recv" ELSE "exit"]
    /\ UNCHANGED <<l_caller, l_buffer, l_pending>>
    /\ UNCHANGED <<runVars, matchVars, watchVars, entryVars, decVars>>

\* frames recv has returned and that are in the buffer or on their way to it
l_held == Len(l_buffer) + Cardinality({i \in 1..Len(l_pending) : l_pending[i] # NoFrame})

\* _listen of thread i: "msg = self.bus.recv(timeout=0.1)" returns nothing,
\* or a frame
L_recv ==
    /\ \E i \in 1..Len(l_threads) :
          /\ l_threads[i] = "recv"
          /\ \/ /\ l_threads' = [l_threads EXCEPT ![i] = "check"]
                /\ UNCHANGED l_pending
             \/ /\ l_held < MaxBuffer
                /\ \E msg \in BusFrames :
                      l_pending' = [l_pending EXCEPT
                                       ![i] = [msg |-> msg, session |-> Len(l_threads)]]
                /\ l_threads' = [l_threads EXCEPT ![i] = "append"]
    /\ UNCHANGED <<l_caller, l_buffer>>
    /\ UNCHANGED <<runVars, matchVars, watchVars, entryVars, decVars>>

\* _listen of thread i: "if msg: self.received_messages.append(msg)", on the
\* list the attribute is bound to at this moment
L_append ==
    /\ \E i \in 1..Len(l_threads) :
          /\ l_threads[i] = "append"
          /\ l_buffer' = Append(l_buffer, l_pending[i])
          /\ l_pending' = [l_pending EXCEPT ![i] = NoFrame]
          /\ l_threads' = [l_threads EXCEPT ![i] = "check"]
    /\ UNCHANGED l_caller
    /\ UNCHANGED <<runVars, matchVars, watchVars, entryVars, decVars>>

\* a tick passes while the caller is blocked in join: a pending recv returns
\* within the poll interval, a loop test or an append takes no time
L_tick ==
    /\ l_pc = "join"
    /\ l_waited < JoinTimeoutTicks
    /\ \A i \in 1..Len(l_threads) :
          l_threads[i] = "exit" \/ (l_threads[i] = "recv" /\ l_waited < PollTicks)
    /\ l_waited' = l_waited + 1
    /\ UNCHANGED <<l_listening, l_thread, l_threads, l_pc, l_calls, l_buffer,
                   l_pending, l_timeout, l_elapsed, l_ret, l_present, l_overlap>>
    /\ UNCHANGED <<runVars, matchVars, watchVars, entryVars, decVars>>

\* a listener right after CANListener.__init__
ListenerInit ==
    /\ tc_number = 0
    /\ RunStart
    /\ MatchIdle
    /\ WatchIdle
    /\ EntryIdle
    /\ DecoderIdle
    /\ l_listening = FALSE
    /\ l_thread = 0
    /\ l_threads = <<>>
    /\ l_pc = "idle"
    /\ l_waited = 0
    /\ l_calls = 0
    /\ l_buffer = <<>>
    /\ l_pending = <<>>
    /\ l_timeout = 0
    /\ l_elapsed = 0
    /\ l_ret = "none"
    /\ l_present = FALSE
    /\ l_overlap = FALSE

ListenerNext ==
    \/ L_start
    \/ L_stop
    \/ L_join
    \/ L_query
    \/ L_poll
    \/ L_check
    \/ L_recv
    \/ L_append
    \/ L_tick

ListenerSpec == ListenerInit /\ [][ListenerNext]_vars

\* ================================================================== claims
ValidCase == tc_number \in DOMAIN TestTable /\ TestTable[tc_number].messages # <<>>
ListenerRunning == listening /\ thread \in {"check", "recv"}
Returned == ret # "none"
FailedSends == {k \in 1..Len(bus_sent) : ~bus_sent[k].ok}

C2_ListenerRunsWhileSendingAndVerifying ==
    /\ (pc = "send" \/ InVerification) => ListenerRunning
    /\ bus_sent # <<>> => thread # "none"

C2_Witness ==
    /\ pc = "scan"
    /\ ListenerRunning
    /\ Len(bus_sent) = Len(messages)
    /\ received_messages # <<>>

\* C3: the send attempts seen by the adapter are always the first msg_idx
\* entries of the messages list, in list order, each exactly once; once the
\* send loop is left without an interrupt they are the whole list.
C3_SendsEqualMessages ==
    ValidCase =>
        /\ Len(bus_sent) <= Len(messages)
        /\ \A k \in 1..Len(bus_sent) :
              /\ bus_sent[k].arbitration_id = messages[k].id
              /\ bus_sent[k].data = messages[k].data
        /\ (InVerification \/ pc \in {"listener_stop", "join"} \/ Returned)
              => Len(bus_sent) = Len(messages)

C3_Witness ==
    /\ ValidCase
    /\ Returned
    /\ Len(bus_sent) = MaxMsgs
    /\ bus_sent[1].data # bus_sent[MaxMsgs].data

\* C4: a failed send never aborts the run: every later frame is still
\* attempted, the verification phase is still carried through (a FAIL verdict
\* only after every target was waited for, a PASS verdict only on a captured
\* target frame), and success_count is the number of sends that succeeded.
C4_SendFailureIsNotFatal ==
    ValidCase =>
        /\ success_count = Len(bus_sent) - Cardinality(FailedSends)
        /\ success_count <= Len(messages)
        /\ Returned =>
              /\ Len(bus_sent) = Len(messages)
              /\ ret = "False" => target_idx > Len(expected_targets)
              /\ ret = "True" => TargetFrameCaptured

C4_Witness ==
    /\ ValidCase
    /\ ret = "True"
    /\ Len(bus_sent) = Len(messages)
    /\ Len(messages) >= 2
    /\ 1 \in FailedSends
    /\ success_count = Len(messages) - 1

\* ------------------------------------------- claims on the capture buffer
ThreadEnded == thread \in {"none", "exit"}

\* C18: the buffer always equals the sequence of frames the capture thread
\* has received from the adapter since start(), in arrival order: every frame
\* is appended, matching or not, and no step of the foreground thread
\* (check_message_received included) changes the buffer.
C18_BufferIsReceiveLog ==
    received_messages = recv_log

C18_Witness ==
    /\ ret = "True"
    /\ Len(received_messages) = MaxBuffer
    /\ received_messages[1].arbitration_id = STIMULUS_ID
    /\ received_messages[MaxBuffer].arbitration_id = DISPLAY_ID

\* C19: once stop() has returned the capture thread has ended and the buffer
\* stays as it was at that return; a frame whose receive was in flight at the
\* call is appended before the return or not at all.
C19_NoAppendAfterStop ==
    stops_returned >= 1 =>
        /\ ThreadEnded
        /\ received_messages = stopped_buffer
        /\ Len(stopped_buffer) >= stop_called_at

C19_Witness ==
    /\ stops_returned = 1
    /\ pc = "close"
    /\ thread = "exit"
    /\ Len(stopped_buffer) > stop_called_at

\* C20: stop() may be called again and before any start(): every call
\* returns, the listener is stopped afterwards, and after a second stop() the
\* buffer is what it was after the first; without a start() it stays empty.
C20_StopIsIdempotent ==
    /\ stops_returned >= 1 => ~listening
    /\ stops_returned >= 2 => (received_messages = stopped_buffer /\ ThreadEnded)
    /\ pc \in {"shutdown", "exit"} => stops_returned >= 1
    /\ (pc \in {"shutdown", "exit"} /\ thread = "none") => received_messages = <<>>

C20_Witness ==
    /\ pc = "exit"
    /\ stops_returned = 2
    /\ stopped_buffer # <<>>
    /\ received_messages = stopped_buffer

\* ------------------------------------- claims on threads and the adapter
OpsBy(op) == {o[1] : o \in {x \in adapter_ops : x[2] = op}}

\* C22: during a run bus.recv is called only by the capture thread and
\* bus.send only by the foreground thread; frames are appended to the buffer
\* only by the capture thread and the buffer is read only by the foreground
\* thread (which also creates the empty buffer in start()).
C22_SingleReaderSingleWriter ==
    /\ OpsBy("recv") \subseteq {"capture"}
    /\ OpsBy("send") \subseteq {"main"}
    /\ OpsBy("append") \subseteq {"capture"}
    /\ OpsBy("read") \subseteq {"main"}
    /\ OpsBy("reset") \subseteq {"main"}

C22_Witness ==
    /\ Returned
    /\ OpsBy("recv") = {"capture"}
    /\ OpsBy("send") = {"main"}
    /\ OpsBy("append") = {"capture"}
    /\ OpsBy("read") = {"main"}

\* the test case that differs from tc_number only in expected_result
LabelTwin(n) ==
    CASE n = 1 -> 11
      [] n = 11 -> 1
      [] n = 5 -> 12
      [] n = 12 -> 5
      [] OTHER -> n

\* C23: the label expected_result has no effect: a test case and the one that
\* differs from it only in the label send the same frames, and the verdict is
\* decided by what the scans find in the buffer, whatever the label says.
C23_VerdictIgnoresLabel ==
    (ValidCase /\ Returned) =>
        LET twin == TestTable[LabelTwin(tc_number)]
        IN  /\ Len(bus_sent) = Len(twin.messages)
            /\ \A k \in 1..Len(bus_sent) :
                  /\ bus_sent[k].arbitration_id = twin.messages[k].id
                  /\ bus_sent[k].data = twin.messages[k].data
            /\ (ret = "True") = seen_at_scan

C23_Witness ==
    /\ tc_number = 11
    /\ tc.expected_result = "FAIL"
    /\ TestTable[LabelTwin(tc_number)].expected_result = "PASS"
    /\ ret = "True"
    /\ Len(bus_sent) = MaxMsgs

\* C24: a run in which no matching frame is captured before the verification
\* timeout is over comes to an end and returns FAIL as an ordinary result:
\* the process reaches its exit, a run that was not interrupted has returned
\* a verdict by then, and the verdict is False when no scan found the target.
C24_RunTerminatesWithVerdict ==
    /\ <>(pc = "exit")
    /\ []((pc = "exit" /\ ~interrupted) => Returned)
    /\ []((Returned /\ ~seen_at_scan) => ret = "False")

C24_Witness ==
    /\ pc = "exit"
    /\ ValidCase
    /\ ~interrupted
    /\ recv_log # <<>>
    /\ ~seen_at_scan
    /\ phase_elapsed = VerificationTimeoutTicks
    /\ ret = "False"

\* ------------------------------------------------- claims on the matchers
Matched == m_res # "unset"
pattern == m_def.data_pattern
payload == m_msg.data
PatternPresent == pattern # NoData
SameId == m_msg.arbitration_id = m_def.id
\* the first Len(pattern) payload bytes satisfy the pattern
PrefixSatisfies ==
    /\ Len(payload) >= Len(pattern)
    /\ \A i \in 1..Len(pattern) : pattern[i] = None \/ pattern[i] = payload[i]
WildcardFree == \A i \in 1..Len(pattern) : pattern[i] # None

\* C5: in every matcher a pattern of length k matches every frame with the
\* target identifier whose payload has length >= k and whose first k bytes
\* satisfy the pattern.
C5_PrefixMatches ==
    (Matched /\ PatternPresent /\ SameId /\ PrefixSatisfies) => m_res = "True"

\* C6: in every matcher a frame whose payload is shorter than a present pattern
\* never matches.
C6_ShorterPayloadNeverMatches ==
    (Matched /\ PatternPresent /\ Len(payload) < Len(pattern)) => m_res = "False"

\* C7: with the pattern absent, every frame with the target identifier matches
\* and the result is a boolean, in every matcher.
C7_AbsentPatternMatchesAny ==
    (Matched /\ ~PatternPresent /\ SameId) => m_res = "True"

\* C8: a frame matches only if its identifier equals the target's and its
\* standard/extended flag equals the flag of the registry definition.
C8_MatchRequiresSameIdWidth ==
    (Matched /\ m_res = "True") =>
        /\ SameId
        /\ m_msg.is_extended_id = m_def.extended

\* C9: a frame matches a present pattern only if every non-wildcard position
\* equals the payload byte at the same index; for a wildcard-free pattern of
\* the payload's length (same identifier) it matches iff payload = pattern.
C9_NonWildcardPositionsEqual ==
    (Matched /\ PatternPresent) =>
        /\ m_res = "True" =>
              \A i \in 1..Len(pattern) :
                  pattern[i] # None => (i <= Len(payload) /\ payload[i] = pattern[i])
        /\ (WildcardFree /\ Len(pattern) = Len(payload) /\ SameId) =>
              (m_res = "True" <=> payload = pattern)

C9_Witness ==
    /\ m_tool = "receiver"
    /\ m_res = "True"
    /\ PatternPresent
    /\ WildcardFree
    /\ Len(pattern) = MaxPatternLen
    /\ payload = pattern

\* C10: wildcards only widen: a frame that matched a pattern matches every
\* pattern obtained from it by replacing positions with the wildcard.
C10_WildcardsOnlyWiden ==
    (Matched /\ m_prev = "True") => m_res = "True"

C10_Witness ==
    /\ m_tool = "transceiver"
    /\ m_prev = "True"
    /\ m_res = "True"
    /\ Len(pattern) = MaxPatternLen
    /\ \E i \in 1..Len(pattern) : pattern[i] = None
    /\ \E i \in 1..Len(pattern) : pattern[i] # None

\* ------------------------------------------- claims on the watch sessions
Watching == w_pc # "idle"
WatchSingle == w_fn = "wait_for_message"
WatchMulti == w_fn = "wait_for_messages"
WatchEnded == w_pc \in {"summary", "done"}

\* target j matches the n-th frame pulled, by the matcher of the tool
TargetMatches(j, n) ==
    CheckMatch(w_tool, w_pulled[n].message, targets[j].id, targets[j].data)
IsFirstMatch(j, n) == TargetMatches(j, n) /\ \A k \in 1..(j - 1) : ~TargetMatches(k, n)
FrameMatches(n) == \E j \in 1..Len(targets) : TargetMatches(j, n)
MatchedFrames == {n \in 1..Len(w_pulled) : FrameMatches(n)}

\* the result entry reported for target j, and whether it lists frame n
EntryOf(j) == match_results[KeyOf(targets[j])]
HasEvent(j, n) ==
    \E e \in 1..Len(EntryOf(j).matches) : EntryOf(j).matches[e].frame_no = n

\* every list of match events of the session
EventLists ==
    IF WatchSingle THEN {matched_messages}
    ELSE {match_results[k].matches : k \in DOMAIN match_results}
\* number of match events recorded
EventCount ==
    IF WatchSingle THEN Len(matched_messages)
    ELSE Cardinality({p \in (DOMAIN match_results) \X (1..MaxWatchFrames) :
                         p[2] <= Len(match_results[p[1]].matches)})

\* C11: in wait_for_messages a frame is attributed to the first target in
\* declared order that matches it and to no other: the entry of target j
\* lists an event of a frame only if j is the first target matching it.
C11_FrameAttributedToFirstMatch ==
    (Watching /\ WatchMulti) =>
        \A n \in 1..Len(w_pulled) : \A j \in 1..Len(targets) :
            HasEvent(j, n) => IsFirstMatch(j, n)

\* C12: wait_for_messages keeps one separate entry per declared target, named
\* after it, and the entry of a target lists exactly the frames whose first
\* matching target it is, also when two targets share an identifier.
C12_OneEntryPerTarget ==
    (Watching /\ WatchMulti) =>
        /\ Cardinality(DOMAIN match_results) = Len(targets)
        /\ \A j \in 1..Len(targets) :
              /\ EntryOf(j).name = targets[j].name
              /\ EntryOf(j).count = Len(EntryOf(j).matches)
              /\ \A n \in 1..Len(w_pulled) : HasEvent(j, n) <=> IsFirstMatch(j, n)

\* C13: with collect_all false the first matching frame ends the session: it
\* is the last frame pulled, the loop is left because of the match, and one
\* match is recorded at most.
C13_FirstMatchEndsSession ==
    (Watching /\ ~collect_all) =>
        /\ EventCount <= 1
        /\ total_matches <= 1
        /\ \A n \in MatchedFrames :
              /\ n = Len(w_pulled)
              /\ n = msg_count
              /\ WatchEnded
              /\ w_end = "match"
              /\ EventCount = 1

C13_Witness ==
    /\ ~collect_all
    /\ w_pc = "done"
    /\ w_end = "match"
    /\ msg_count = MaxWatchFrames
    /\ EventCount = 1

\* C14: with collect_all true a match never ends the session: the loop is
\* left only by the timeout or by an interrupt, with timeout 0 only by an
\* interrupt, and every matching frame pulled so far is recorded.
C14_CollectAllRunsToTimeoutOrInterrupt ==
    (Watching /\ collect_all) =>
        /\ w_end \in {"none", "timeout", "interrupt"}
        /\ timeout = 0 => w_end # "timeout"
        /\ EventCount = Cardinality(MatchedFrames)
        /\ total_matches = Cardinality(MatchedFrames)

C14_Witness ==
    /\ collect_all
    /\ timeout = 0
    /\ w_pc = "done"
    /\ w_end = "interrupt"
    /\ EventCount >= 2
    /\ w_elapsed > MaxWatchTimeout

C17_EventsInArrivalOrder ==
    Watching =>
        \A L \in EventLists :
            /\ \A a \in 1..Len(L) :
                  /\ L[a].frame_no \in 1..Len(w_pulled)
                  /\ L[a].message = w_pulled[L[a].frame_no].message
                  /\ L[a].time_from_start = w_pulled[L[a].frame_no].at
            /\ \A a, b \in 1..Len(L) :
                  a < b => /\ L[a].frame_no < L[b].frame_no
                           /\ L[a].time_from_start <= L[b].time_from_start

C17_Witness ==
    /\ WatchMulti
    /\ \E L \in EventLists :
          /\ Len(L) = 2
          /\ L[1].frame_no + 1 < L[2].frame_no
          /\ L[1].time_from_start < L[2].time_from_start

\* C16: with a timeout T > 0 the poll loop never runs later than one poll
\* interval after T, it is left by the timeout only once T has elapsed, and
\* every session ends, whatever frames arrive and whether or not they match.
C16_TimeoutEndsSession ==
    /\ []((Watching /\ timeout > 0) =>
            /\ w_elapsed <= timeout + PollTicks
            /\ w_pc = "recv" => w_elapsed <= timeout
            /\ w_end = "timeout" => w_elapsed > timeout)
    /\ <>((Watching /\ timeout > 0) => w_pc = "done")

C16_Witness ==
    /\ timeout = MaxWatchTimeout
    /\ collect_all
    /\ w_pc = "done"
    /\ w_end = "timeout"
    /\ w_elapsed = timeout + PollTicks
    /\ msg_count = MaxWatchFrames
    /\ EventCount >= 1

\* ----------------------------------------- claims on the listener harness
AliveThreads == {i \in 1..Len(l_threads) : l_threads[i] # "exit"}

\* C21: after any sequence of start() and stop() calls at most one capture
\* thread is alive, and exactly one while a session is active (start() has
\* returned and stop() has not been called since).
C21_AtMostOneCaptureThread ==
    /\ Cardinality(AliveThreads) <= 1
    /\ l_listening => Cardinality(AliveThreads) = 1


\* -------------------------------------- claims on frames matching no target
\* the matching rule: the identifier is equal and, with a pattern present,
\* the payload is at least as long and agrees at every position that is not
\* a wildcard
Satisfies(msg, id, pat) ==
    /\ msg.arbitration_id = id
    /\ \/ pat = NoData
       \/ /\ Len(msg.data) >= Len(pat)
          /\ \A i \in 1..Len(pat) : pat[i] = None \/ msg.data[i] = pat[i]

\* msg matches none of the targets tgts
Foreign(msg, tgts) ==
    \A j \in 1..Len(tgts) : ~Satisfies(msg, tgts[j].id, tgts[j].data)

\* the capture buffer without the frames that match no target of the run
WithoutForeign(buffer) ==
    SelectSeq(buffer, LAMBDA m : ~Foreign(m, expected_targets))

\* every scan of a run finds what it would find were the foreign frames not
\* in the buffer, and no run passes on foreign frames alone
VerdictIgnoresForeign ==
    ValidCase =>
        /\ pc = "scan" =>
              LET t == expected_targets[target_idx]
              IN  ScanBuffer(received_messages, t.id, t.data)
                    = ScanBuffer(WithoutForeign(received_messages), t.id, t.data)
        /\ ret = "True" => WithoutForeign(received_messages) # <<>>

\* a watch session that pulls a foreign frame leaves the counts and the
\* lists of match events as they were
CountsIgnoreForeign ==
    (/\ w_pulled' # w_pulled
     /\ Foreign(w_pulled'[Len(w_pulled')].message, targets))
        => UNCHANGED <<match_count, matched_messages, match_results>>

\* C25: frames that match no declared target never change the outcome: a
\* watch session leaves every count and every match list unchanged when it
\* pulls one, and the verdict of a scripted run is the one it would reach
\* with those frames taken out of the capture buffer, wherever they stand.
C25_ForeignFramesChangeNothing ==
    /\ []VerdictIgnoresForeign
    /\ [][CountsIgnoreForeign]_vars

C25_Witness ==
    /\ w_fn = "wait_for_messages"
    /\ w_pc = "done"
    /\ Len(w_pulled) = MaxWatchFrames
    /\ Foreign(w_pulled[1].message, targets)
    /\ ~Foreign(w_pulled[2].message, targets)
    /\ Foreign(w_pulled[3].message, targets)
    /\ total_matches = 1
    /\ w_ret = "True"


\* -------------------------------------------- claims on the entry points
\* C26: whichever way a process leaves once the adapter was opened (verdict
\* PASS or FAIL, invalid test case, timeout of a watch session, Ctrl+C, a
\* failed send, an exception of recv, an unknown name found after opening),
\* at its exit the capture thread has ended and the adapter is shut down.
C26_ExitClosesAdapter ==
    /\ pc = "exit" => (~bus_open /\ ~listening /\ ThreadEnded)
    /\ (e_pc = "exit" /\ e_bus # "unopened") => e_bus = "closed"

C26_Witness ==
    /\ pc = "exit"
    /\ ValidCase
    /\ interrupted
    /\ recv_log # <<>>
    /\ thread = "exit"
    /\ ~bus_open

\* C27: an unknown message name is reported before the adapter is opened or
\* used, at every entry point that takes names.
C27_UnknownNameBeforeAdapter ==
    e_reported => (e_bus_at_report = "unopened" /\ ~e_used)


\* ------------------------------------------------ claims on the decoders
\* a field specification as the configuration file describes it: a kind it
\* lists, with as many offsets as the kind combines
Arity(type) ==
    CASE type \in {"16bit", "16bit_signed"} -> 2
      [] type = "32bit" -> 4
      [] type \in {"nibble_lower", "nibble_upper", "byte_enum", "bit_field"} -> 1
      [] OTHER -> 0

WellFormed(f) == Arity(f.type) > 0 /\ Len(f.bytes) = Arity(f.type)

Malformed(spec) == \E i \in 1..Len(spec) : ~WellFormed(spec[i])

\* C28: a registry with a malformed field specification stops the start of
\* the tool when it is loaded: no tool gets as far as decoding with it.
C28_MalformedSpecStopsStartup ==
    Malformed(d_spec) => d_pc \in {"idle", "load"}

\* C29: a field is in the decoded result exactly when all of its offsets
\* are smaller than the payload length; nothing is raised.
C29_FieldPresentIffInRange ==
    d_pc = "done" =>
        \A i \in 1..Len(d_spec) :
            (d_spec[i].name \in DOMAIN d_decoded) <=> InRange(d_data, d_spec[i].bytes)

\* the field of the dict that reads a little-endian kind at the given offsets
FieldsOf(type, bytes) ==
    {i \in 1..Len(d_spec) :
        /\ d_spec[i].type = type
        /\ d_spec[i].bytes = bytes
        /\ d_spec[i].endian = "little"}

\* the two-byte little-endian encoding of a 16-bit pattern
LittleEndian16(v) == <<v % 256, v \div 256>>

\* C30: the decoders undo the little-endian encoding: the '32bit' field at
\* offsets [0,1,2,3] of build_fc08_data(t) is t, a '16bit' field is the value
\* whose two-byte encoding the payload holds, and a '16bit_signed' field is
\* the integer of -32768..32767 whose two's complement the payload holds.
C30_DecodeUndoesEncode ==
    d_pc = "done" =>
        /\ \A i \in FieldsOf("32bit", <<0, 1, 2, 3>>) :
              d_timestamp # NoWord => d_decoded[d_spec[i].name] = d_timestamp
        /\ \A i \in FieldsOf("16bit", <<0, 1>>) :
              Len(d_data) >= 2 =>
                 /\ d_decoded[d_spec[i].name] \in 0..65535
                 /\ LittleEndian16(d_decoded[d_spec[i].name]) = SubSeq(d_data, 1, 2)
        /\ \A i \in FieldsOf("16bit_signed", <<0, 1>>) :
              Len(d_data) >= 2 =>
                 /\ d_decoded[d_spec[i].name] \in -32768..32767
                 /\ LittleEndian16((d_decoded[d_spec[i].name] + 65536) % 65536)
                       = SubSeq(d_data, 1, 2)

C30_Witness ==
    /\ d_pc = "done"
    /\ d_tool = "transceiver"
    /\ d_spec = special_decode.CURRENT_DATETIME_DISPLAY
    /\ d_timestamp = Word(65535, 65535)
    /\ d_data = <<255, 255, 255, 255, 0>>
    /\ d_decoded["timestamp"] = d_timestamp

\* the '32bit' fields of the dict that declare 'epoch_base' and were stored
EpochFields ==
    {i \in 1..Len(d_spec) :
        /\ d_spec[i].type = "32bit"
        /\ "epoch_base" \in DOMAIN d_spec[i]
        /\ d_spec[i].name \in DOMAIN d_decoded}

\* the result of the field carries unix_timestamp = value + epoch_base, and
\* the calendar time of the base itself when the value is 0
EpochAttached(i) ==
    LET value == d_decoded[d_spec[i].name]
        base == d_spec[i].epoch_base
        unix_ts == d_attached[d_spec[i].name].unix_timestamp
    IN  /\ unix_ts # NoWord
        /\ (unix_ts.hi - value.hi - base.hi) * 65536
              + (unix_ts.lo - value.lo - base.lo) = 0
        /\ (value = Word(0, 0) /\ base = Word(22149, 49536)) =>
              d_attached[d_spec[i].name].datetime = <<2016, 1, 1, 0, 0, 0>>

\* C31: the decoder of the receiver and of the transceiver attaches
\* unix_timestamp = decoded value + epoch_base to a '32bit' field that
\* declares epoch_base; the bytes 00 00 00 00 with epoch_base 1451606400
\* give 2016-01-01 00:00:00 UTC.
C31_EpochTimestampAttached ==
    d_pc = "done" => \A i \in EpochFields : EpochAttached(i)

\* the same for the transceiver alone
TransceiverAttachesEpoch ==
    (d_pc = "done" /\ d_tool = "transceiver") => \A i \in EpochFields : EpochAttached(i)

TransceiverEpochZero ==
    /\ d_pc = "done"
    /\ d_tool = "transceiver"
    /\ d_data = <<0, 0, 0, 0, 0>>
    /\ EpochFields # {}
    /\ d_attached["timestamp"].datetime = <<2016, 1, 1, 0, 0, 0>>

\* the kinds listed under "DECODER TYPES AVAILABLE"
DocumentedKinds ==
    {"16bit", "32bit", "16bit_signed", "nibble_lower", "nibble_upper", "byte_enum"}

\* a well-formed field of a documented kind whose offsets are in range is in
\* the result, a nibble with the half of the byte it names
DocumentedDecoded(f) ==
    (f.type \in DocumentedKinds /\ WellFormed(f) /\ InRange(d_data, f.bytes)) =>
        /\ f.name \in DOMAIN d_decoded
        /\ f.type = "nibble_lower" =>
              d_decoded[f.name] = d_data[f.bytes[1] + 1] % 16
        /\ f.type = "nibble_upper" =>
              d_decoded[f.name] = (d_data[f.bytes[1] + 1] \div 16) % 16

\* C32: every decoder kind the configuration documents as available yields
\* a decoded field in the receiver and in the transceiver whenever its
\* offsets are in range; nibble_lower is byte & 0x0F, nibble_upper is
\* (byte >> 4) & 0x0F.
C32_DocumentedKindsDecode ==
    d_pc = "done" => \A i \in 1..Len(d_spec) : DocumentedDecoded(d_spec[i])

\* the same for the transceiver alone
TransceiverDecodesDocumented ==
    (d_pc = "done" /\ d_tool = "transceiver") =>
        \A i \in 1..Len(d_spec) : DocumentedDecoded(d_spec[i])

\* the same for the receiver and every kind but nibble_upper
ReceiverDecodesAllButUpper ==
    (d_pc = "done" /\ d_tool = "receiver") =>
        \A i \in 1..Len(d_spec) :
            d_spec[i].type # "nibble_upper" => DocumentedDecoded(d_spec[i])

\* what the decoder returns for a dict that holds the one field only
Alone(f) == decode_special_fields(d_tool, d_data, <<f>>)

\* the field is decoded as it is when it is the only one of the dict
DecodedAsAlone(f) ==
    /\ (f.name \in DOMAIN d_decoded) <=> (f.name \in DOMAIN Alone(f))
    /\ f.name \in DOMAIN d_decoded =>
          /\ d_decoded[f.name] = Alone(f)[f.name]
          /\ d_attached[f.name] = Extras(d_tool, d_data, f)

\* a status rule that raised leaves the field in the result without 'status'
OnlyStatusMissing(f) ==
    (f.name \in DOMAIN d_decoded /\ d_attached[f.name].raised) =>
        /\ d_decoded[f.name] = Signed16(Combine16(d_data, f))
        /\ d_attached[f.name].status = <<>>

\* C33: _decode_special_fields never raises: it returns for every payload
\* and dict; when one field fails or its status rule raises, only that field
\* (or only its status) is missing and every other field is decoded as if
\* the failure had not occurred.
C33_FailureStaysInItsField ==
    /\ d_pc = "framed" => ENABLED D_decode
    /\ d_pc = "done" =>
          \A i \in 1..Len(d_spec) :
              /\ DecodedAsAlone(d_spec[i])
              /\ OnlyStatusMissing(d_spec[i])

\* the receiver's status rule raises on -1: the warning is printed, the
\* field is kept without status, the field after it is decoded
C33_Witness ==
    /\ d_pc = "done"
    /\ d_tool = "receiver"
    /\ d_data = <<255, 255>>
    /\ d_warned = {"level"}
    /\ d_decoded = [level |-> -1, whole |-> 255]
    /\ d_attached["level"].status = <<>>

\* a field fails (IndexError at the second offset) and the next is decoded
FailedFieldSkipped ==
    /\ d_pc = "done"
    /\ d_warned = {"short"}
    /\ d_decoded = [whole |-> 128]

\* ------------------------------------------ claims on the verification phase
\* the verification phase is over and no scan found a target
DeclaredUnmet ==
    /\ pc = "listener_stop"
    /\ ~interrupted
    /\ ~verification_passed

\* C34: when none of the k >= 1 expectation targets of the test case is ever
\* captured, the verification phase declares the expectation unmet at most
\* one verification timeout after it began, not k timeouts after.
C34_UnmetWithinOneTimeout ==
    (DeclaredUnmet /\ ~TargetFrameCaptured) =>
        phase_elapsed <= VerificationTimeoutTicks

\* the same for the test cases that declare one target (all shipped ones)
OneTargetUnmetWithinOneTimeout ==
    (DeclaredUnmet /\ Len(expected_targets) = 1) =>
        phase_elapsed = VerificationTimeoutTicks

\* with two targets the second is given the whole timeout again
TwoTargetsTakeTwoTimeouts ==
    /\ DeclaredUnmet
    /\ Len(expected_targets) = 2
    /\ received_messages = <<>>
    /\ phase_elapsed = 2 * VerificationTimeoutTicks

\* ---------------------------------- claims on the listener's buffer and scan
\* C35: check_message_received scans the buffer at least once before it
\* reports 'not found': with a matching frame in the buffer when it is
\* called it returns found, for every timeout >= 0.
C35_ScansBeforeNotFound ==
    (l_present /\ l_ret # "none") => l_ret = "True"

\* the same for the timeouts above 0
PositiveTimeoutScansFirst ==
    (l_present /\ l_ret # "none" /\ l_timeout > 0) => l_ret = "True"

\* with timeout 0 the loop body is never entered
ZeroTimeoutSkipsScan ==
    /\ l_present
    /\ l_timeout = 0
    /\ l_ret = "False"
    /\ Len(l_threads) = 1

\* C38: start() begins every session with an empty buffer: after start()
\* the buffer holds only frames received after that call.
C38_BufferHoldsOnlyThisSession ==
    \A i \in 1..Len(l_buffer) : l_buffer[i].session = Len(l_threads)

\* the same for a caller that never calls start() while a thread is alive
StoppedSessionsLeaveNothing ==
    ~l_overlap => \A i \in 1..Len(l_buffer) : l_buffer[i].session = Len(l_threads)

\* a session is stopped and the next one receives a frame
SecondSessionAfterStop ==
    /\ ~l_overlap
    /\ Len(l_threads) = 2
    /\ l_buffer # <<>>

\* a frame an earlier thread had received before start() satisfies the scan
\* of the new session
StaleFrameSatisfiesScan ==
    /\ l_ret = "True"
    /\ Len(l_buffer) = 1
    /\ l_buffer[1].session < Len(l_threads)

\* ------------------------------- claims on the two paths of a watch session
\* a session with one target, on either path
OneTarget == w_fn # "none" /\ Len(targets) = 1

\* the one target matches the frame
Hit(msg) == CheckMatch(w_tool, msg, targets[1].id, targets[1].data)

\* what a session with one target has returned, recorded and pulled, in
\* terms of the frames that arrived alone
AgreedState ==
    OneTarget =>
        /\ msg_count = Len(w_pulled)
        /\ total_matches = Cardinality({i \in 1..Len(w_pulled) : Hit(w_pulled[i].message)})
        /\ w_pc = "done" => w_ret = BoolStr(total_matches > 0)

\* what a session with one target does with the next frame and at the
\* timeout test, in terms of target, timeout and collect_all alone
AgreedStep ==
    OneTarget =>
        /\ Len(w_pulled') = Len(w_pulled) + 1 =>
              LET msg == w_pulled'[Len(w_pulled')].message
              IN  /\ total_matches' = total_matches + (IF Hit(msg) THEN 1 ELSE 0)
                  /\ w_pc' = IF Hit(msg) /\ ~collect_all THEN "summary" ELSE "loop"
        /\ (w_pc = "loop" /\ w_pc' # "loop" /\ w_end' # "interrupt") =>
              (w_pc' = "summary") = (timeout > 0 /\ w_elapsed > timeout)
        /\ (w_pc = "loop" /\ w_pc' = "recv") => ~(timeout > 0 /\ w_elapsed > timeout)

\* C36: wait_for_messages called with a list holding one target and
\* wait_for_message called with that target agree: the same boolean, the
\* same number of matches and the same number of frames pulled, for every
\* target, timeout, collect_all flag and sequence of arriving frames.  Both
\* follow one rule that does not depend on the path.
C36_SingleAndMultiPathAgree == []AgreedState /\ [][AgreedStep]_vars

C36_Witness ==
    /\ w_fn = "wait_for_messages"
    /\ Len(targets) = 1
    /\ collect_all
    /\ w_pc = "done"
    /\ Len(w_pulled) = 3
    /\ total_matches = 2
    /\ w_ret = "True"

\* the single-target path reaches the same
SinglePathSame ==
    /\ w_fn = "wait_for_message"
    /\ collect_all
    /\ w_pc = "done"
    /\ Len(w_pulled) = 3
    /\ total_matches = 2
    /\ w_ret = "True"

\* ------------------------------------------------- claims on the teardown
\* C37: CANSender.close() never shuts the adapter down while the capture
\* thread is alive: the thread has ended when bus.shutdown() is called, and
\* receive is never invoked on an adapter that was shut down.
C37_ThreadEndedBeforeShutdown ==
    /\ (pc = "shutdown" \/ ~bus_open) => thread \in {"none", "exit"}
    /\ thread = "recv" => bus_open

\* close() has joined a thread that was waiting in recv when stop() was
\* called, and has shut the adapter down
C37_Witness ==
    /\ pc = "exit"
    /\ ~bus_open
    /\ thread = "exit"
    /\ recv_log # <<>>
    /\ stops_returned = 1
    /\ interrupted

\* ------------------------------------------ claims on the guards of the run
\* C39: run_test_case called with a number that is not in TEST_CASES, or
\* whose message list is empty, returns False without starting the capture
\* listener and without sending a frame: adapter and buffer are left as
\* they were.
C39_RejectedCaseTouchesNothing ==
    ~ValidCase =>
        /\ pc # "entry" => ret = "False"
        /\ adapter_ops = {}
        /\ bus_sent = <<>>
        /\ received_messages = <<>>
        /\ recv_log = <<>>
        /\ thread = "none"
        /\ ~listening
        /\ pc = "close" => bus_open

\* the test case with an empty message list has returned False
C39_Witness ==
    /\ tc_number \in DOMAIN TestTable
    /\ TestTable[tc_number].messages = <<>>
    /\ pc = "close"
    /\ ret = "False"
    /\ bus_open

\* a number that is not in the table has returned False
UnknownCaseReturned ==
    /\ tc_number \notin DOMAIN TestTable
    /\ pc = "close"
    /\ ret = "False"

====
